---- MODULE Spec2Model ----
(***************************************************************************)
(* Multi-source synchronisation engine of the monitoring portal:           *)
(* the Sentry, Jira, SonarCloud and Azure sync services, their sync logs   *)
(* (SyncAttempt ledger), the eligibility decisions of the schedulers and   *)
(* management commands, and the entity tables they upsert into.            *)
(*                                                                         *)
(* The four integrations share no tables, so one behaviour follows one     *)
(* integration (variable kind, fixed by Init).  A sync call is a process   *)
(* whose position is run.pc; the clock advances between its network steps. *)
(***************************************************************************)
EXTENDS Integers, Sequences, FiniteSets, TLC

VARIABLES kind,      \* the integration this deployment is observed through
          now,       \* timezone.now(), in units of one sync-interval unit
          org,       \* Organization / AzureConfiguration rows
          remote,    \* what each organization's remote account answers
          projects,  \* Project rows (AzureResource rows for azure), pk = index
          issues,    \* Issue rows, pk = index
          logs,      \* SyncLog rows (the SyncAttempt ledger), pk = index
          run,       \* the sync_all / sync_configuration call in progress
          call,      \* the entry point (command, task, convenience function) in progress
          last       \* table sizes when the previous run returned

VARIABLES annotations,  \* what the Sentry API answers for each Sentry issue: its annotation list
          titles,       \* SentryIssue.title of each Sentry issue
          summaries,    \* JiraIssue.summary of each ticket key
          links,        \* SentryJiraLink rows (the CrossLink table), pk = index
          pass,         \* the correlation pass that ran last: its arguments and result
          pg            \* the pagination loop of the list fetch in progress

syncvars == <<kind, now, org, remote, projects, issues, logs, run, call, last>>
corrvars == <<annotations, titles, summaries, links, pass>>
pagevars == <<pg>>
vars == <<syncvars, corrvars, pagevars>>

(* ------------------------------ bounds --------------------------------- *)
NumOrgs == 2          \* organizations configured per integration
MaxProjects == 2      \* projects listed by a remote account
MaxIssues == 3        \* issues listed per remote project
MaxTime == 4          \* clock horizon
MaxLogs == 2          \* sync attempts per behaviour

(* --------------------------- program constants ------------------------- *)
NULL == -1                    \* a null DateTimeField / FloatField
SyncInterval == 3             \* SentryOrganization.sync_interval_hours default, given to every organization
max_results == 2              \* page size of the Jira issue search (100 in the code), scaled so that MaxIssues spans pages
max_issues_to_sync == 1000    \* JiraProject.max_issues_to_sync default

Kinds == {"sentry", "jira", "sonar", "azure"}
OrgIds == 1..NumOrgs
Modes == {"ok", "auth", "flaky"}
    \* ok: every request answered; auth: every request rejected (HTTP 401);
    \* flaky: the probe request is answered, every list request fails
Shapes == {"ok", "nofield", "nondict"}
    \* a list element as expected / a dict missing a required key / not a dict

(* ----------------------------- remote data ----------------------------- *)
\* The project list an account returns: keys 1..MaxProjects, at most one
\* element malformed.
RemoteProjects(r) ==
    [i \in 1..MaxProjects |->
        [key |-> i, shape |-> IF i = r.badProject THEN r.badShape ELSE "ok"]]

\* The issues of remote project pkey: MaxIssues issues with keys unique per
\* project, at most one element malformed.
IssueCategory(i) == IF i % 3 = 1 THEN "new" ELSE IF i % 3 = 2 THEN "indeterminate" ELSE "done"

RemoteIssues(r, pkey) ==
    [i \in 1..MaxIssues |->
        [key |-> (pkey - 1) * MaxIssues + i,
         shape |-> IF i = r.badIssue THEN r.badShape ELSE "ok",
         cat |-> IssueCategory(i)]]

CleanRemote(m) == [mode |-> m, badProject |-> 0, badIssue |-> 0, badShape |-> "nofield"]

RemoteChoices ==
    {CleanRemote(m) : m \in Modes}
    \cup {[mode |-> "ok", badProject |-> bp, badIssue |-> bi, badShape |-> sh] :
            bp \in 0..MaxProjects, bi \in 0..MaxIssues, sh \in {"nofield", "nondict"}}

(* ------------------------------- rows ---------------------------------- *)
NewOrg(enabled, ls) ==
    [sync_enabled |-> enabled, interval |-> SyncInterval, last_sync |-> ls,
     connection_status |-> "unknown", connection_error |-> ""]

NewLog(o) ==
    [org |-> o, status |-> "started", success |-> FALSE,
     started_at |-> now, completed_at |-> NULL, duration |-> NULL,
     projects_synced |-> 0, issues_synced |-> 0,
     error_message |-> "", error_entries |-> 0,
     finalized |-> 0]

IdleRun ==
    [pc |-> "idle", org |-> 0, log |-> 0, mem_org |-> NewOrg(FALSE, NULL),
     mem_log |-> [org |-> 0, status |-> "started", success |-> FALSE,
                  started_at |-> NULL, completed_at |-> NULL, duration |-> NULL,
                  projects_synced |-> 0, issues_synced |-> 0,
                  error_message |-> "", error_entries |-> 0,
                  finalized |-> 0],
     snap_projects |-> <<>>, snap_issues |-> <<>>, snap_org |-> NewOrg(FALSE, NULL),
     todo |-> <<>>, pcount |-> 0, icount |-> 0, err |-> "", probe_failed |-> FALSE,
     was_due |-> FALSE]

IdleCall ==
    [pc |-> "idle", cmd |-> "none", force |-> FALSE, target |-> 0,
     queue |-> <<>>, started |-> {}, failed |-> 0]

(* ------------------------------ upsert --------------------------------- *)
Min(a, b) == IF a < b THEN a ELSE b

\* The rows update_or_create finds for the lookup arguments.  Sentry, Jira
\* and SonarCloud projects are looked up by (organization, key); an Azure
\* resource by resource_id alone.
ProjectLookup(table, o, key) ==
    {i \in DOMAIN table : table[i].key = key /\ (kind = "azure" \/ table[i].org = o)}

\* Mutant: the upsert never finds the stored row (objects.create in place of
\* update_or_create).
IssueLookupAlwaysCreates(table, p, key) == {}

\* Sentry and Jira issues are looked up by (project, key); a SonarCloud
\* CodeIssue by sonarcloud_key alone.
IssueLookup(table, p, key) ==
    {i \in DOMAIN table : table[i].key = key /\ (kind = "sonar" \/ table[i].project = p)}

\* Model.objects.update_or_create: one row found -> its defaults are
\* overwritten; none -> a row is inserted; several -> MultipleObjectsReturned.
UpsertProject(table, o, key) ==
    LET m == ProjectLookup(table, o, key) IN
    IF m = {}
    THEN [table |-> Append(table, [org |-> o, key |-> key, total |-> 0,
                                   open |-> 0, in_progress |-> 0, done |-> 0]),
          ok |-> TRUE]
    ELSE IF Cardinality(m) = 1
    THEN [table |-> [table EXCEPT ![CHOOSE i \in m : TRUE].org = o], ok |-> TRUE]
    ELSE [table |-> table, ok |-> FALSE]

UpsertIssue(table, p, item) ==
    LET m == IssueLookup(table, p, item.key) IN
    IF m = {}
    THEN [table |-> Append(table, [project |-> p, key |-> item.key, cat |-> item.cat]),
          ok |-> TRUE]
    ELSE IF Cardinality(m) = 1
    THEN [table |-> [table EXCEPT ![CHOOSE i \in m : TRUE] =
                        [project |-> p, key |-> item.key, cat |-> item.cat]],
          ok |-> TRUE]
    ELSE [table |-> table, ok |-> FALSE]

(* --------------------------- project sync ------------------------------ *)
\* The for-loop of _sync_projects / _sync_resources over the fetched list.
\* An element that is not a dict makes the except-handler's own
\* project_data.get(...) / resource_data['name'] raise, which leaves the loop.
RECURSIVE SyncProjectItems(_, _, _, _)
SyncProjectItems(items, i, o, acc) ==
    IF i > Len(items) THEN acc
    ELSE IF items[i].shape = "nondict" THEN [acc EXCEPT !.raised = TRUE]
    ELSE IF items[i].shape = "nofield" THEN SyncProjectItems(items, i + 1, o, acc)
    ELSE LET u == UpsertProject(acc.table, o, items[i].key) IN
         SyncProjectItems(items, i + 1, o,
             [table |-> u.table,
              count |-> IF u.ok THEN acc.count + 1 ELSE acc.count,
              raised |-> FALSE])

\* _sync_projects (Sentry, Jira, SonarCloud): a failed fetch returns 0.
\* _sync_resources (Azure): client.get_resources raises on a failed fetch.
SyncProjects(table, o) ==
    IF remote[o].mode # "ok"
    THEN [table |-> table, count |-> 0, raised |-> (kind = "azure")]
    ELSE SyncProjectItems(RemoteProjects(remote[o]), 1, o,
                          [table |-> table, count |-> 0, raised |-> FALSE])

(* ---------------------------- issue sync ------------------------------- *)
\* The per-issue loop.  Sentry upserts inline and its except-handler reads
\* issue_data.get('id'), so a non-dict element escapes; Jira and SonarCloud
\* go through _sync_single_issue, which returns False on any exception.
RECURSIVE SyncIssueItems(_, _, _, _)
SyncIssueItems(items, i, p, acc) ==
    IF i > Len(items) THEN acc
    ELSE IF items[i].shape = "nondict"
    THEN IF kind = "sentry" THEN [acc EXCEPT !.raised = TRUE]
         ELSE SyncIssueItems(items, i + 1, p, acc)
    ELSE IF items[i].shape = "nofield" THEN SyncIssueItems(items, i + 1, p, acc)
    ELSE LET u == UpsertIssue(acc.table, p, items[i]) IN
         SyncIssueItems(items, i + 1, p,
             [table |-> u.table,
              count |-> IF u.ok THEN acc.count + 1 ELSE acc.count,
              raised |-> FALSE])

\* The remote search endpoint: the page starting at start_at and the total.
JiraPage(all, start_at) ==
    SubSeq(all, start_at + 1, Min(start_at + max_results, Len(all)))

\* The while-loop of JiraSyncService._sync_project_issues.
RECURSIVE JiraIssuePages(_, _, _, _)
JiraIssuePages(all, start_at, p, acc) ==
    LET page == JiraPage(all, start_at) IN
    IF page = <<>> THEN acc
    ELSE LET acc2 == SyncIssueItems(page, 1, p, acc) IN
         IF start_at + max_results >= Len(all) \/ acc2.count >= max_issues_to_sync
         THEN acc2
         ELSE JiraIssuePages(all, start_at + max_results, p, acc2)

\* The issue fetch and upserts for the project row p of organization o.
SyncProjectIssues(table, o, p) ==
    LET all == RemoteIssues(remote[o], projects[p].key)
        acc0 == [table |-> table, count |-> 0, raised |-> FALSE]
    IN IF remote[o].mode # "ok" THEN acc0
       ELSE IF kind = "jira" THEN JiraIssuePages(all, 0, p, acc0)
       ELSE SyncIssueItems(all, 1, p, acc0)

\* _update_project_statistics (Jira) and the statistics block of
\* _sync_project_data (Sentry); SonarCloud keeps no issue counters.
CountIssues(table, p, cats) ==
    Cardinality({i \in DOMAIN table : table[i].project = p /\ table[i].cat \in cats})

UpdateProjectStatistics(ptable, itable, p) ==
    IF kind = "sonar" THEN ptable
    ELSE [ptable EXCEPT
            ![p].total = CountIssues(itable, p, {"new", "indeterminate", "done"}),
            ![p].open = CountIssues(itable, p, {"new"}),
            ![p].in_progress = IF kind = "jira"
                               THEN CountIssues(itable, p, {"indeterminate"})
                               ELSE @,
            ![p].done = CountIssues(itable, p, {"done"})]

\* Mutant: the project loop visits the rows of every organization.
ProjectsOfEveryOrganization(table, o, i) == [k \in 1..Len(table) |-> k]

\* self.organization.projects.all() / .filter(sync_enabled=True, ...): the
\* organization's project rows in pk order.
RECURSIVE ProjectsOf(_, _, _)
ProjectsOf(table, o, i) ==
    IF i > Len(table) THEN <<>>
    ELSE IF table[i].org = o THEN <<i>> \o ProjectsOf(table, o, i + 1)
    ELSE ProjectsOf(table, o, i + 1)

(* ---------------------------- eligibility ------------------------------ *)
\* sync_sentry_data: the scheduled task's filter.
TaskEligible(r, t) ==
    r.sync_enabled /\ (r.last_sync = NULL \/ t - r.last_sync >= r.interval)

\* sync_sentry / sync_sonarcloud without --org: the batch filter.
CommandBatchEligible(r, t) ==
    r.sync_enabled /\ (r.last_sync = NULL \/ t - r.last_sync >= r.interval)

\* sync_sentry / sync_sonarcloud --org X without --force: the command goes on
\* to sync unless sync is disabled or the last sync is too recent.
CommandOneEligible(r, t) ==
    r.sync_enabled /\ ~(r.last_sync # NULL /\ t - r.last_sync < r.interval)

\* AzureConfiguration.needs_sync.
NeedsSync(r, t) ==
    IF r.last_sync = NULL THEN TRUE ELSE t - r.last_sync > r.interval

\* sync_azure without --config and without --force: active configurations
\* that need syncing.
AzureCommandEligible(r, t) == r.sync_enabled /\ NeedsSync(r, t)

\* SentryOrganization.objects.filter(sync_enabled=True) and its siblings, in pk order.
RECURSIVE EnabledOrgs(_)
EnabledOrgs(i) ==
    IF i > NumOrgs THEN <<>>
    ELSE IF org[i].sync_enabled THEN <<i>> \o EnabledOrgs(i + 1)
    ELSE EnabledOrgs(i + 1)

RECURSIVE SelectSeq2(_, _, _)
SelectSeq2(s, i, keep) ==
    IF i > Len(s) THEN <<>>
    ELSE IF s[i] \in keep THEN <<s[i]>> \o SelectSeq2(s, i + 1, keep)
    ELSE SelectSeq2(s, i + 1, keep)

(* -------------------------------- Init --------------------------------- *)
\* No correlation pass and no stand-alone list fetch take part in a behaviour
\* of the sync services.
IdlePass == [cmd |-> "none"]

IdlePager ==
    [loop |-> "none", page |-> 0, collected |-> 0, synced |-> 0, requests |-> 0,
     done |-> FALSE, ok |-> TRUE]

NoCorrelation ==
    /\ annotations = <<>>
    /\ titles = <<>>
    /\ summaries = <<>>
    /\ links = <<>>
    /\ pass = IdlePass

NoPagination == pg = IdlePager


\* One organization with an arbitrary remote account next to healthy ones, or
\* organizations with arbitrary schedules whose remote accounts are healthy.
InitRich ==
    /\ org \in {f \in [OrgIds -> {NewOrg(TRUE, ls) : ls \in {NULL, 0}}] :
                   \A o \in OrgIds \ {1} : f[o] = NewOrg(TRUE, NULL)}
    /\ remote \in {f \in [OrgIds -> RemoteChoices] :
                      \A o \in OrgIds \ {1} : f[o] = CleanRemote("ok")}

InitSched ==
    /\ org \in [OrgIds -> {NewOrg(e, ls) : e \in BOOLEAN, ls \in {NULL, 0}}]
    /\ remote = [o \in OrgIds |-> CleanRemote("ok")]

Init ==
    /\ kind \in Kinds
    /\ now = 0
    /\ (InitRich \/ InitSched)
    /\ projects = <<>>
    /\ issues = <<>>
    /\ logs = <<>>
    /\ run = IdleRun
    /\ call = IdleCall
    /\ last = [org |-> 0, np |-> 0, ni |-> 0]
    /\ NoCorrelation
    /\ NoPagination

(* ----------------------------- entry points ---------------------------- *)
CanEnter == call.pc = "idle" /\ run.pc = "idle" /\ Len(logs) < MaxLogs

Enter(cmd, force, target, queue, pc) ==
    call' = [pc |-> IF pc = "active" /\ queue = <<>> THEN "done" ELSE pc,
             cmd |-> cmd, force |-> force, target |-> target,
             queue |-> queue, started |-> {}, failed |-> 0]

\* sync_organization / sync_jira_organization / sync_sonarcloud_organization:
\* .get(id=..., sync_enabled=True), then sync_all; DoesNotExist returns None.
\* For azure: the admin action's service.sync_configuration(config).
SyncOrganizationQueue(o) ==
    IF kind = "azure" \/ org[o].sync_enabled THEN <<o>> ELSE <<>>

SyncOrganization(o) ==
    /\ CanEnter
    /\ Enter("svc_one", FALSE, o, SyncOrganizationQueue(o), "active")
    /\ UNCHANGED <<kind, now, org, remote, projects, issues, logs, run, last>>
    /\ UNCHANGED <<corrvars, pagevars>>

\* sync_all_organizations / sync_all_jira_organizations /
\* sync_all_sonarcloud_organizations: every enabled organization.
SyncAllOrganizations ==
    /\ CanEnter
    /\ kind # "azure"
    /\ Enter("svc_all", FALSE, 0, EnabledOrgs(1), "active")
    /\ UNCHANGED <<kind, now, org, remote, projects, issues, logs, run, last>>
    /\ UNCHANGED <<corrvars, pagevars>>

\* tasks.sync_sentry_data: the eligible organizations, one sync_all each.
TaskSyncSentryData ==
    /\ CanEnter
    /\ kind = "sentry"
    /\ Enter("task", FALSE, 0,
             SelectSeq2(EnabledOrgs(1), 1, {o \in OrgIds : TaskEligible(org[o], now)}),
             "active")
    /\ UNCHANGED <<kind, now, org, remote, projects, issues, logs, run, last>>
    /\ UNCHANGED <<corrvars, pagevars>>

\* Command.handle with --org / --config.
CmdSyncOne(o, force) ==
    /\ CanEnter
    /\ kind \in {"sentry", "sonar", "azure"}
    /\ IF kind = "azure"
       THEN \* _get_configurations: .get(name=..., is_active=True), then sync_configuration
            IF org[o].sync_enabled
            THEN Enter("cmd_one", force, o, <<o>>, "active")
            ELSE Enter("cmd_one", force, o, <<>>, "error")
       ELSE IF ~org[o].sync_enabled /\ ~force
            THEN Enter("cmd_one", force, o, <<>>, "error")
            ELSE IF ~force /\ ~CommandOneEligible(org[o], now)
            THEN Enter("cmd_one", force, o, <<>>, "done")
            ELSE Enter("cmd_one", force, o, SyncOrganizationQueue(o), "active")
    /\ UNCHANGED <<kind, now, org, remote, projects, issues, logs, run, last>>
    /\ UNCHANGED <<corrvars, pagevars>>

\* Command.handle without --org / --config.
CmdSyncAllSelected(force) ==
    IF force THEN EnabledOrgs(1)
    ELSE SelectSeq2(EnabledOrgs(1), 1,
            {o \in OrgIds : IF kind = "azure" THEN AzureCommandEligible(org[o], now)
                            ELSE CommandBatchEligible(org[o], now)})

CmdSyncAll(force) ==
    /\ CanEnter
    /\ kind \in {"sentry", "sonar", "azure"}
    /\ LET selected == CmdSyncAllSelected(force) IN
       IF selected = <<>>
       THEN Enter("cmd_all", force, 0, <<>>, "done")
       ELSE IF kind = "azure"
       THEN IF Len(selected) > 1
            THEN \* sync_all_configurations(force): the non-forced filter
                 \* references the unimported name models and raises NameError
                 \* before its loop, leaving the selected configurations unsynced
                 IF force THEN Enter("cmd_all", force, 0, EnabledOrgs(1), "active")
                 ELSE Enter("cmd_all", force, 0, selected, "error")
            ELSE Enter("cmd_all", force, selected[1], selected, "active")
       ELSE \* sync_all_organizations() takes no argument: every enabled organization
            Enter("cmd_all", force, 0, EnabledOrgs(1), "active")
    /\ UNCHANGED <<kind, now, org, remote, projects, issues, logs, run, last>>
    /\ UNCHANGED <<corrvars, pagevars>>

(* ------------------------------ the run -------------------------------- *)
\* The eligibility rule of the specification, evaluated when a run starts.
Due(r, t) == r.sync_enabled /\ (r.last_sync = NULL \/ t - r.last_sync >= r.interval)

IsBatch(cmd) == cmd \in {"svc_all", "cmd_all", "task"}

\* SyncLog.objects.create(...) at the top of sync_all / sync_configuration,
\* for the next organization of the entry point's loop; the transaction of
\* the Sentry, Jira and SonarCloud services opens right after.
Begin ==
    /\ call.pc = "active" /\ run.pc = "idle" /\ call.queue # <<>>
    /\ Len(logs) < MaxLogs
    /\ LET o == Head(call.queue)
           l == NewLog(o)
       IN /\ logs' = Append(logs, l)
          /\ run' = [IdleRun EXCEPT !.pc = "probe", !.org = o, !.log = Len(logs) + 1,
                                    !.mem_org = org[o], !.mem_log = l,
                                    !.snap_projects = projects, !.snap_issues = issues,
                                    !.snap_org = org[o],
                                    !.was_due = Due(org[o], now)]
          /\ call' = [call EXCEPT !.queue = Tail(@), !.started = @ \cup {o}]
    /\ UNCHANGED <<kind, now, org, remote, projects, issues, last>>
    /\ UNCHANGED <<corrvars, pagevars>>

\* Whether the lightweight authenticated request succeeds.
ProbeSucceeds(r) == r.mode \in {"ok", "flaky"}

\* First step inside the try block: _test_connection (Jira, SonarCloud),
\* client.test_connection (Azure), _sync_organization (Sentry, which only
\* refreshes the organization's details and ignores a failed request).
Probe ==
    /\ run.pc = "probe"
    /\ LET o == run.org IN
       IF kind = "sentry"
       THEN /\ run' = [run EXCEPT !.pc = "projects"]
            /\ org' = IF remote[o].mode = "ok" THEN [org EXCEPT ![o] = run.mem_org] ELSE org
       ELSE IF kind = "azure"
       THEN /\ run' = IF ProbeSucceeds(remote[o])
                      THEN [run EXCEPT !.pc = "projects"]
                      ELSE [run EXCEPT !.pc = "except", !.err = "probe", !.probe_failed = TRUE]
            /\ org' = org
       ELSE IF ProbeSucceeds(remote[o])
            THEN LET m == [run.mem_org EXCEPT !.connection_status = "connected",
                                              !.connection_error = ""]
                 IN /\ run' = [run EXCEPT !.pc = "projects", !.mem_org = m]
                    /\ org' = [org EXCEPT ![o] = m]
            ELSE /\ run' = [run EXCEPT !.pc = "except", !.err = "probe", !.probe_failed = TRUE,
                                       !.mem_org = [@ EXCEPT !.connection_status = "failed",
                                                             !.connection_error = "probe"]]
                 /\ org' = org
    /\ UNCHANGED <<kind, now, remote, projects, issues, logs, call, last>>
    /\ UNCHANGED <<corrvars, pagevars>>

\* _sync_projects / _sync_resources, then the queryset of projects to visit.
\* (Azure's _sync_metrics and _sync_logs catch every exception and write
\* tables that are not part of this model.)
SyncProjectsStep ==
    /\ run.pc = "projects"
    /\ LET res == SyncProjects(projects, run.org) IN
       /\ projects' = res.table
       /\ run' = IF res.raised
                 THEN [run EXCEPT !.pc = "except", !.err = "exception"]
                 ELSE [run EXCEPT !.pc = IF kind = "azure" THEN "finish" ELSE "issues",
                                  !.pcount = res.count,
                                  !.todo = IF kind = "azure" THEN <<>>
                                           ELSE ProjectsOf(res.table, run.org, 1)]
    /\ UNCHANGED <<kind, now, org, remote, issues, logs, call, last>>
    /\ UNCHANGED <<corrvars, pagevars>>

\* One iteration of the project loop: _sync_project_data (Sentry) or
\* _sync_project_issues (Jira, SonarCloud) with the statistics update.
SyncIssuesStep ==
    /\ run.pc = "issues" /\ run.todo # <<>>
    /\ LET p == Head(run.todo)
           res == SyncProjectIssues(issues, run.org, p)
       IN /\ issues' = res.table
          /\ IF res.raised
             THEN /\ run' = [run EXCEPT !.pc = "except", !.err = "exception"]
                  /\ projects' = projects
             ELSE /\ run' = [run EXCEPT !.todo = Tail(@), !.icount = @ + res.count]
                  /\ projects' = UpdateProjectStatistics(projects, res.table, p)
    /\ UNCHANGED <<kind, now, org, remote, logs, call, last>>
    /\ UNCHANGED <<corrvars, pagevars>>

\* Mutant: every save stamps the duration with the time elapsed so far.
AzureSyncLogSaveStampsNow(l) ==
    IF l.started_at # NULL THEN [l EXCEPT !.duration = now - l.started_at] ELSE l

\* AzureSyncLog.save: the duration is calculated when both times are set and
\* no (non-zero) duration is stored yet.
AzureSyncLogSave(l) ==
    IF l.started_at # NULL /\ l.completed_at # NULL /\ l.duration \in {NULL, 0}
    THEN [l EXCEPT !.duration = l.completed_at - l.started_at]
    ELSE l

\* End of the try block: counters and status on the sync log, last_sync on
\* the organization.  Azure completes and saves its sync log here and returns.
Finish ==
    /\ \/ run.pc = "issues" /\ run.todo = <<>>
       \/ run.pc = "finish"
    /\ LET o == run.org IN
       IF kind = "azure"
       THEN LET l == [run.mem_log EXCEPT !.projects_synced = run.pcount,
                                         !.success = TRUE,
                                         !.completed_at = now,
                                         !.finalized = @ + 1]
            IN /\ org' = [org EXCEPT ![o].last_sync = now]
               /\ logs' = [logs EXCEPT ![run.log] = AzureSyncLogSave(l)]
               /\ run' = [run EXCEPT !.pc = "returned", !.mem_log = AzureSyncLogSave(l)]
       ELSE LET m == [run.mem_org EXCEPT
                        !.last_sync = now,
                        !.connection_status = IF kind = "sentry" THEN @ ELSE "connected"]
            IN /\ org' = [org EXCEPT ![o] = m]
               /\ logs' = logs
               /\ run' = [run EXCEPT !.pc = "finally", !.mem_org = m,
                                     !.mem_log = [@ EXCEPT !.projects_synced = run.pcount,
                                                           !.issues_synced = run.icount,
                                                           !.status = "success"]]
    /\ UNCHANGED <<kind, now, remote, projects, issues, call, last>>
    /\ UNCHANGED <<corrvars, pagevars>>

\* Mutant: the failure is saved inside the transaction and rolled back with it.
FailedOrganizationRolledBack(r) == r.snap_org

\* Mutant: the except block stamps last_sync before saving the organization.
FailedOrganizationStampsLastSync(r) ==
    [r.mem_org EXCEPT !.connection_status = "failed",
                      !.connection_error = r.err,
                      !.last_sync = now]

\* The organization row after the except block of a run r: Sentry's handler
\* does not touch the organization, so the row is the rolled-back one; Jira
\* and SonarCloud save the in-memory object with the failure recorded.
FailedOrganization(r) ==
    IF kind = "sentry" THEN r.snap_org
    ELSE [r.mem_org EXCEPT !.connection_status = "failed",
                           !.connection_error = r.err]

\* Mutant: the except block runs with the transaction's writes kept.
ExceptKeepsWrites ==
    /\ run.pc = "except" /\ kind # "azure"
    /\ org' = [org EXCEPT ![run.org] = FailedOrganization(run)]
    /\ run' = [run EXCEPT !.pc = "finally",
                          !.mem_org = IF kind = "sentry" THEN @ ELSE FailedOrganization(run),
                          !.mem_log = [@ EXCEPT !.status = "failed",
                                                !.error_message = run.err]]
    /\ UNCHANGED <<kind, now, remote, projects, issues, logs, call, last>>
    /\ UNCHANGED <<corrvars, pagevars>>

\* The except block.  Sentry, Jira and SonarCloud leave transaction.atomic()
\* by an exception, which rolls the transaction's writes back; Jira and
\* SonarCloud then save the in-memory organization with the failure.  Azure
\* records the error, completes and saves the sync log, and re-raises.
Except ==
    /\ run.pc = "except"
    /\ LET o == run.org IN
       IF kind = "azure"
       THEN LET l == [run.mem_log EXCEPT !.error_entries = 1,
                                         !.error_message = run.err,
                                         !.completed_at = now,
                                         !.finalized = @ + 1]
            IN /\ logs' = [logs EXCEPT ![run.log] = AzureSyncLogSave(l)]
               /\ run' = [run EXCEPT !.pc = "raised", !.mem_log = AzureSyncLogSave(l)]
               /\ UNCHANGED <<org, projects, issues>>
       ELSE LET m == FailedOrganization(run)
            IN /\ projects' = run.snap_projects
               /\ issues' = run.snap_issues
               /\ org' = [org EXCEPT ![o] = m]
               /\ logs' = logs
               /\ run' = [run EXCEPT !.pc = "finally",
                                     !.mem_org = IF kind = "sentry" THEN @ ELSE m,
                                     !.mem_log = [@ EXCEPT !.status = "failed",
                                                           !.error_message = run.err]]
    /\ UNCHANGED <<kind, now, remote, call, last>>
    /\ UNCHANGED <<corrvars, pagevars>>

\* Mutant: the duration is taken from the completion time alone.
FinalizeDurationAbsolute(l, t) ==
    [l EXCEPT !.completed_at = t, !.duration = t, !.finalized = @ + 1]

\* Mutant: the finally block saves the row as it was created, still 'started'.
FinalizeResetsStatus(l, t) ==
    [l EXCEPT !.completed_at = t,
              !.duration = IF l.started_at # NULL THEN t - l.started_at ELSE @,
              !.finalized = @ + 1,
              !.status = "started", !.success = FALSE]

\* The finally block of the Sentry, Jira and SonarCloud sync_all.
Finalize(l, t) ==
    [l EXCEPT !.completed_at = t,
              !.duration = IF l.started_at # NULL THEN t - l.started_at ELSE @,
              !.finalized = @ + 1]

\* Mutant: the sync log is completed and saved on the success path only.
FinallyOnSuccessOnly ==
    /\ run.pc = "finally"
    /\ logs' = IF run.mem_log.status = "success"
               THEN [logs EXCEPT ![run.log] = Finalize(run.mem_log, now)]
               ELSE logs
    /\ run' = [run EXCEPT !.pc = "returned"]
    /\ UNCHANGED <<kind, now, org, remote, projects, issues, call, last>>
    /\ UNCHANGED <<corrvars, pagevars>>

Finally ==
    /\ run.pc = "finally"
    /\ logs' = [logs EXCEPT ![run.log] = Finalize(run.mem_log, now)]
    /\ run' = [run EXCEPT !.pc = "returned", !.mem_log = Finalize(run.mem_log, now)]
    /\ UNCHANGED <<kind, now, org, remote, projects, issues, call, last>>
    /\ UNCHANGED <<corrvars, pagevars>>

\* Whether an exception of sync_configuration reaches the entry point's
\* caller: the batch loops catch it, the single-configuration paths do not.
Propagates(c) == c.cmd \in {"svc_one", "cmd_one"} \/ (c.cmd = "cmd_all" /\ c.target # 0)

\* The call returns (or raises) to the entry point, which goes on with its
\* loop or ends.
Return ==
    /\ run.pc \in {"returned", "raised"}
    /\ last' = [org |-> run.org, np |-> Len(projects), ni |-> Len(issues)]
    /\ call' = [call EXCEPT
                  !.failed = IF run.pc = "raised" THEN @ + 1 ELSE @,
                  !.pc = IF run.pc = "raised" /\ Propagates(call) THEN "error"
                         ELSE IF call.queue = <<>> THEN "done" ELSE @]
    /\ run' = IdleRun
    /\ UNCHANGED <<kind, now, org, remote, projects, issues, logs>>
    /\ UNCHANGED <<corrvars, pagevars>>

\* The entry point has returned to its caller (or exited with an error).
EndCall ==
    /\ call.pc \in {"done", "error"}
    /\ call' = IdleCall
    /\ UNCHANGED <<kind, now, org, remote, projects, issues, logs, run, last>>
    /\ UNCHANGED <<corrvars, pagevars>>

\* Time passes between calls and while a run waits for the probe's answer.
Tick ==
    /\ now < MaxTime
    /\ run.pc \in {"idle", "probe"}
    /\ now' = now + 1
    /\ UNCHANGED <<kind, org, remote, projects, issues, logs, run, call, last>>
    /\ UNCHANGED <<corrvars, pagevars>>

Next ==
    \/ \E o \in OrgIds : SyncOrganization(o)
    \/ SyncAllOrganizations
    \/ TaskSyncSentryData
    \/ \E o \in OrgIds, force \in BOOLEAN : CmdSyncOne(o, force)
    \/ \E force \in BOOLEAN : CmdSyncAll(force)
    \/ Begin
    \/ Probe
    \/ SyncProjectsStep
    \/ SyncIssuesStep
    \/ Finish
    \/ Except
    \/ Finally
    \/ Return
    \/ EndCall
    \/ Tick

Spec == Init /\ [][Next]_vars

(* ============================== properties ============================= *)
\* The outcome a sync log shows: its status field, or for AzureSyncLog (which
\* has none) the success flag once completed_at is set.
Outcome(l) ==
    IF kind = "azure"
    THEN IF l.completed_at = NULL THEN "started"
         ELSE IF l.success THEN "success" ELSE "failed"
    ELSE l.status

RunEnded == run.pc \in {"returned", "raised"}

\* C1: a sync run that directly follows a run of the same organization (the
\* remote data never changes) returns with the Project and Issue tables at
\* the row counts the previous run left, and in every state no two Project
\* rows share (organization, key) and no two Issue rows share (project, key).
C1_IdempotentUpsert ==
    /\ \A i, j \in DOMAIN projects :
          i # j => ~(projects[i].org = projects[j].org /\ projects[i].key = projects[j].key)
    /\ \A i, j \in DOMAIN issues :
          i # j => ~(issues[i].project = issues[j].project /\ issues[i].key = issues[j].key)
    /\ (RunEnded /\ last.org = run.org)
          => (Len(projects) = last.np /\ Len(issues) = last.ni)

\* A second successful run of the same organization has returned with rows stored.
C1_Witness ==
    /\ RunEnded /\ last.org = run.org
    /\ Outcome(logs[run.log]) = "success"
    /\ Len(projects) > 0
    /\ kind = "azure" \/ Len(issues) > 0

\* C2: every call of sync_all / sync_configuration owns exactly one sync log,
\* the newest one; when the call has returned or raised, that log has been
\* finalized exactly once, has completed_at set and no longer shows
\* 'started'; so has every log of an earlier call.
C2_FinalizedExactlyOnce ==
    /\ run.pc # "idle" => (run.log = Len(logs) /\ logs[run.log].org = run.org)
    /\ \A i \in DOMAIN logs :
          (run.pc = "idle" \/ RunEnded \/ i # run.log)
             => /\ logs[i].finalized = 1
                /\ logs[i].completed_at # NULL
                /\ Outcome(logs[i]) # "started"
    /\ \A i \in DOMAIN logs : logs[i].finalized <= 1

\* A call in which a step raised has ended, after an earlier call.
C2_Witness ==
    /\ RunEnded /\ run.err # "" /\ Len(logs) = 2
    /\ Outcome(logs[1]) = "success"

\* C3: every sync log showing success or failed has completed_at set,
\* completed_at >= started_at and duration = completed_at - started_at.
C3_DurationDerived ==
    \A i \in DOMAIN logs :
        Outcome(logs[i]) \in {"success", "failed"}
           => /\ logs[i].completed_at # NULL
              /\ logs[i].completed_at >= logs[i].started_at
              /\ logs[i].duration = logs[i].completed_at - logs[i].started_at

\* A failed and a successful log, one of them started at a non-zero time and
\* completed later than it started.
C3_Witness ==
    \E i, j \in DOMAIN logs :
        /\ Outcome(logs[i]) = "failed" /\ Outcome(logs[j]) = "success"
        /\ logs[j].started_at > 0
        /\ logs[j].duration > 0

\* C4: when the connection probe of a run failed, the run has ended with its
\* sync log failed and the reason recorded, the Project and Issue tables are
\* what they were when the run started, and (Jira, SonarCloud, which keep a
\* connection status) the organization's connection_status is 'failed' with
\* the reason stored.
C4_ProbeFailureAborts ==
    (RunEnded /\ run.probe_failed)
       => /\ Outcome(logs[run.log]) = "failed"
          /\ logs[run.log].error_message # ""
          /\ projects = run.snap_projects
          /\ issues = run.snap_issues
          /\ kind \in {"jira", "sonar"}
                => /\ org[run.org].connection_status = "failed"
                   /\ org[run.org].connection_error # ""

\* A Jira or SonarCloud run whose probe failed has ended while rows of an
\* earlier run are stored.
C4_Witness ==
    /\ RunEnded /\ run.probe_failed
    /\ kind \in {"jira", "sonar"}
    /\ Len(projects) > 0 /\ Len(issues) > 0

\* C5: a run against an account that rejects the organization's credentials
\* on every request ends with its sync log failed, in every integration.
C5_AuthFailureIsFatal ==
    (RunEnded /\ remote[run.org].mode = "auth")
       => Outcome(logs[run.log]) = "failed"

\* The issue rows a project of the account r must hold when exactly the
\* well-formed issues of its page were upserted.
GoodIssuesStored(r, o) ==
    \A p \in DOMAIN projects :
        projects[p].org = o
           => \A i \in 1..MaxIssues :
                 i # r.badIssue
                    => \E k \in DOMAIN issues :
                          /\ issues[k].project = p
                          /\ issues[k].key = RemoteIssues(r, projects[p].key)[i].key

\* C6: when one issue of each fetched page is malformed, the run ends success,
\* every other issue is stored, issues_synced counts the well-formed issues
\* only, and the sync log holds exactly one error entry per malformed issue.
C6_MalformedIssueSkipped ==
    LET r == remote[run.org] IN
    (RunEnded /\ kind # "azure" /\ r.mode = "ok" /\ r.badProject = 0 /\ r.badIssue # 0)
       => /\ Outcome(logs[run.log]) = "success"
          /\ GoodIssuesStored(r, run.org)
          /\ logs[run.log].issues_synced = MaxProjects * (MaxIssues - 1)
          /\ logs[run.log].error_entries = MaxProjects

C8_EligibilityRule ==
    \A o \in OrgIds :
        /\ kind = "sentry" => /\ TaskEligible(org[o], now) = Due(org[o], now)
                              /\ CommandBatchEligible(org[o], now) = Due(org[o], now)
                              /\ CommandOneEligible(org[o], now) = Due(org[o], now)
        /\ kind = "sonar" => /\ CommandBatchEligible(org[o], now) = Due(org[o], now)
                             /\ CommandOneEligible(org[o], now) = Due(org[o], now)
        /\ kind = "azure" => AzureCommandEligible(org[o], now) = Due(org[o], now)

\* C9: a run started by a batch entry point without the force flag is a run
\* of an organization that was due when the run started.
C9_BatchSkipsNotDue ==
    (run.pc # "idle" /\ call.cmd \in {"cmd_all", "task"} /\ ~call.force)
       => run.was_due

\* C10: a finished forced command for a named organization has started a run
\* for it, whatever its last_sync and sync_enabled, and a forced batch command
\* finishes without error having started a run for every enabled organization.
C10_ForceBypassesEligibility ==
    /\ (call.cmd = "cmd_one" /\ call.force /\ call.pc \in {"done", "error"})
          => call.target \in call.started
    /\ (call.cmd = "cmd_all" /\ call.force /\ call.pc = "done")
          => \A o \in OrgIds : org[o].sync_enabled => o \in call.started

\* The organizations a sequence of primary keys names.
QueueSet(q) == {q[i] : i \in DOMAIN q}

\* C11: a batch entry point that selected several organizations, one of them
\* with an account that fails its run, ends by returning (not raising) with a
\* run started for every organization it selected, and each of those runs
\* has ended with its sync log completed.
C11_BatchIsolation ==
    (/\ IsBatch(call.cmd) /\ call.target = 0
     /\ call.pc \in {"done", "error"}
     /\ \E o \in call.started \cup QueueSet(call.queue) : remote[o].mode # "ok")
       => /\ call.pc = "done"
          /\ call.queue = <<>>
          /\ \A o \in call.started :
                \E i \in DOMAIN logs : logs[i].org = o /\ logs[i].completed_at # NULL

\* C20: a sync run writes only rows of the organization it syncs: every
\* Project row that belonged to another organization when the run began, and
\* every Issue row under such a project, is what it was then.
C20_RunsWriteOwnRows ==
    run.pc # "idle" =>
        /\ \A i \in DOMAIN run.snap_projects :
              run.snap_projects[i].org # run.org
                 => i \in DOMAIN projects /\ projects[i] = run.snap_projects[i]
        /\ \A j \in DOMAIN run.snap_issues :
              run.snap_projects[run.snap_issues[j].project].org # run.org
                 => j \in DOMAIN issues /\ issues[j] = run.snap_issues[j]

\* C21: a sync log is created showing 'started'; its stored outcome changes
\* only in a step of the call that owns it, from 'started' to 'success' when
\* no step of the call raised and to 'failed' when one did; a log showing
\* success or failed keeps that outcome, and a call that has returned or
\* raised has left its log with one of the two.
C21_StatusChangesOnce ==
    [][/\ Len(logs') >= Len(logs)
       /\ Len(logs') > Len(logs) => Outcome(logs'[Len(logs')]) = "started"
       /\ \A i \in DOMAIN logs :
             /\ Outcome(logs[i]) # "started" => Outcome(logs'[i]) = Outcome(logs[i])
             /\ (Outcome(logs[i]) = "started" /\ Outcome(logs'[i]) # "started")
                   => /\ i = run.log
                      /\ Outcome(logs'[i]) = IF run.err = "" THEN "success" ELSE "failed"
       /\ run'.pc \in {"returned", "raised"} => Outcome(logs'[run'.log]) # "started"]_vars

\* A failed log and a later successful one are stored and no call is running.
C21_Witness ==
    /\ run.pc = "idle" /\ Len(logs) = 2
    /\ Outcome(logs[1]) = "failed" /\ Outcome(logs[2]) = "success"

\* C22: while a run fetches its projects the Issue table is what it was when
\* the run began; a step that inserts or changes an Issue row is a step of
\* the run's project loop on a stored Project row of the run's organization,
\* and the row it writes references that project; a run in its project loop
\* inserts no Project row; every Issue row references a stored Project row.
C22_ProjectsBeforeIssues ==
    /\ [](/\ run.pc \in {"probe", "projects"} => issues = run.snap_issues
          /\ run.pc = "issues" =>
                \A k \in DOMAIN run.todo :
                    /\ run.todo[k] \in DOMAIN projects
                    /\ projects[run.todo[k]].org = run.org
          /\ \A j \in DOMAIN issues : issues[j].project \in DOMAIN projects)
    /\ [][/\ (issues' # issues /\ run.pc # "except")
                => /\ run.pc = "issues" /\ run.todo # <<>>
                   /\ \A j \in DOMAIN issues' :
                         (j \notin DOMAIN issues \/ issues'[j] # issues[j])
                            => issues'[j].project = Head(run.todo)
          /\ run.pc = "issues" => (run'.pc # "projects" /\ Len(projects') <= Len(projects))]_vars

\* A run in its project loop has inserted Project rows and Issue rows.
C22_Witness ==
    /\ run.pc = "issues"
    /\ Len(projects) > Len(run.snap_projects)
    /\ Len(issues) > Len(run.snap_issues)

(* ======================================================================= *)
(* Cross-system correlation: SentryJiraLinkingService (explicit references *)
(* in Sentry annotations) and SentryJiraFuzzyMatchingService (title        *)
(* similarity).  Text is a sequence of one-character strings.              *)
(* ======================================================================= *)

(* ------------------------------ bounds --------------------------------- *)
NumSentryIssues == 2    \* Sentry issue rows a correlation pass can visit

(* --------------------------- text and regex ---------------------------- *)
UpperLetters ==
    {"A", "B", "C", "D", "E", "F", "G", "H", "I", "J", "K", "L", "M",
     "N", "O", "P", "Q", "R", "S", "T", "U", "V", "W", "X", "Y", "Z"}

Digits == {"0", "1", "2", "3", "4", "5", "6", "7", "8", "9"}

\* text s holds the literal lit at position i
HasAt(s, i, lit) ==
    /\ i >= 1 /\ i + Len(lit) - 1 <= Len(s)
    /\ \A k \in 1..Len(lit) : s[i + k - 1] = lit[k]

\* Last position of the longest run of characters of class that starts at i
\* (i - 1 when the run is empty): a greedy character-class repetition.
RECURSIVE RunEnd(_, _, _)
RunEnd(s, i, class) ==
    IF i <= Len(s) /\ s[i] \in class THEN RunEnd(s, i + 1, class) ELSE i - 1

\* The same for a negated class [^...].
RECURSIVE RunEndNot(_, _, _)
RunEndNot(s, i, excluded) ==
    IF i <= Len(s) /\ s[i] \notin excluded THEN RunEndNot(s, i + 1, excluded) ELSE i - 1

\* [A-Z][A-Z0-9]+-\d+ matched at position i: the position of its last
\* character, 0 when it does not match there.
KeyEnd(s, i) ==
    IF i >= 1 /\ i <= Len(s) /\ s[i] \in UpperLetters
    THEN LET a == RunEnd(s, i + 1, UpperLetters \cup Digits) IN
         IF a >= i + 1 /\ HasAt(s, a + 1, <<"-">>)
         THEN LET d == RunEnd(s, a + 2, Digits) IN IF d >= a + 2 THEN d ELSE 0
         ELSE 0
    ELSE 0

\* https?:// matched at position i: the position after it, 0 when no match.
SchemeEnd(s, i) ==
    IF HasAt(s, i, <<"h", "t", "t", "p">>)
    THEN LET j == IF HasAt(s, i + 4, <<"s">>) THEN i + 5 ELSE i + 4 IN
         IF HasAt(s, j, <<":", "/", "/">>) THEN j + 3 ELSE 0
    ELSE 0

AtlassianBrowse == <<".", "a", "t", "l", "a", "s", "s", "i", "a", "n", ".", "n", "e", "t", "/", "b", "r", "o", "w", "s", "e", "/">>
Browse == <<"/", "b", "r", "o", "w", "s", "e", "/">>
Jira == <<"j", "i", "r", "a">>
HttpsScheme == <<"h", "t", "t", "p", "s", ":", "/", "/">>
AtlassianNet == <<".", "a", "t", "l", "a", "s", "s", "i", "a", "n", ".", "n", "e", "t">>

NoMatch ==
    [matched |-> FALSE, ticket_key |-> <<>>, base_url |-> <<>>, full_url |-> <<>>, pattern |-> 0]

\* https?://([^.]+)\.atlassian\.net/browse/([A-Z][A-Z0-9]+-\d+) at position i
Pattern1At(url, i) ==
    LET h == SchemeEnd(url, i)
        d == RunEndNot(url, h, {"."})
        k == d + 1 + Len(AtlassianBrowse)
    IN IF h # 0 /\ d >= h /\ HasAt(url, d + 1, AtlassianBrowse) /\ KeyEnd(url, k) # 0
       THEN [matched |-> TRUE, ticket_key |-> SubSeq(url, k, KeyEnd(url, k)),
             base_url |-> HttpsScheme \o SubSeq(url, h, d) \o AtlassianNet,
             full_url |-> url, pattern |-> 1]
       ELSE NoMatch

\* (https?://[^/]+) searched in url: the text up to the first slash after the
\* scheme, <<>> (None) when there is none.
BaseUrlOf(url) ==
    LET starts == {i \in 1..Len(url) :
                     SchemeEnd(url, i) # 0
                     /\ RunEndNot(url, SchemeEnd(url, i), {"/"}) >= SchemeEnd(url, i)}
    IN IF starts = {} THEN <<>>
       ELSE LET i == CHOOSE x \in starts : \A y \in starts : x <= y
            IN SubSeq(url, i, RunEndNot(url, SchemeEnd(url, i), {"/"}))

\* https?://[^/]*jira[^/]*/browse/([A-Z][A-Z0-9]+-\d+) at position i
Pattern2At(url, i) ==
    LET h == SchemeEnd(url, i)
        e == RunEndNot(url, h, {"/"})
        k == e + 1 + Len(Browse)
    IN IF /\ h # 0
          /\ \E j \in h..e : j + Len(Jira) - 1 <= e /\ HasAt(url, j, Jira)
          /\ HasAt(url, e + 1, Browse)
          /\ KeyEnd(url, k) # 0
       THEN [matched |-> TRUE, ticket_key |-> SubSeq(url, k, KeyEnd(url, k)),
             base_url |-> BaseUrlOf(url), full_url |-> url, pattern |-> 2]
       ELSE NoMatch

\* ^([A-Z][A-Z0-9]+-\d+)$
BareKey(text) == text # <<>> /\ KeyEnd(text, 1) = Len(text)

Pattern3At(url, i) ==
    IF i = 1 /\ BareKey(url)
    THEN [matched |-> TRUE, ticket_key |-> url, base_url |-> BaseUrlOf(url),
          full_url |-> url, pattern |-> 3]
    ELSE NoMatch

PatternAt(n, url, i) ==
    IF n = 1 THEN Pattern1At(url, i)
    ELSE IF n = 2 THEN Pattern2At(url, i)
    ELSE Pattern3At(url, i)

\* re.search(pattern, url): the match at the leftmost position that has one.
ReSearch(n, url) ==
    LET hits == {i \in 1..Len(url) : PatternAt(n, url, i).matched}
    IN IF hits = {} THEN NoMatch
       ELSE PatternAt(n, url, CHOOSE x \in hits : \A y \in hits : x <= y)

\* The order of the patterns list.
PatternOrder == <<1, 2, 3>>

\* SentryJiraLinkingService._parse_jira_annotation.
ParseJiraAnnotation(url, display_name) ==
    IF url = <<>> THEN NoMatch
    ELSE LET matching == {n \in DOMAIN PatternOrder : ReSearch(PatternOrder[n], url).matched}
         IN IF matching # {}
            THEN ReSearch(PatternOrder[CHOOSE x \in matching : \A y \in matching : x <= y], url)
            ELSE IF BareKey(display_name)
            THEN [matched |-> TRUE, ticket_key |-> display_name, base_url |-> <<>>,
                  full_url |-> url, pattern |-> 4]
            ELSE NoMatch

\* SentryJiraLinkingService.extract_jira_tickets_from_annotations: elements
\* that are not dicts are passed over, the others are parsed in list order.
RECURSIVE ExtractJiraTickets(_, _)
ExtractJiraTickets(list, i) ==
    IF i > Len(list) THEN <<>>
    ELSE LET rest == ExtractJiraTickets(list, i + 1)
             info == ParseJiraAnnotation(list[i].url, list[i].displayName)
         IN IF list[i].dict /\ info.matched
            THEN <<info>> \o rest
            ELSE rest

(* -------------------- the annotation preview command ------------------- *)
SentryIssueIds == 1..NumSentryIssues

\* An annotation list element that is not a dict (an HTML string).
NonDictAnnotation == [dict |-> FALSE, url |-> <<>>, displayName |-> <<>>]

Annotation(url, display_name) == [dict |-> TRUE, url |-> url, displayName |-> display_name]

\* The answer of the Sentry API to issues/<id>/.
Fetched(list) == [ok |-> TRUE, list |-> list]

FetchFailed == [ok |-> FALSE, list |-> <<>>]

Proj123 == <<"P", "R", "O", "J", "-", "1", "2", "3">>
Proj123Lower == <<"p", "r", "o", "j", "-", "1", "2", "3">>
ShortKey == <<"P", "-", "1">>
Ops7 == <<"O", "P", "S", "-", "7">>
AcmeCloudHost == <<"a", "c", "m", "e", ".", "a", "t", "l", "a", "s", "s", "i", "a", "n", ".", "n", "e", "t">>
JiraCloudHost == <<"j", "i", "r", "a", ".", "a", "t", "l", "a", "s", "s", "i", "a", "n", ".", "n", "e", "t">>
OnPremiseHost == <<"j", "i", "r", "a", ".", "a", "c", "m", "e", ".", "c", "o", "m">>
OtherHost == <<"e", "x", "a", "m", "p", "l", "e", ".", "c", "o", "m">>
HttpScheme == <<"h", "t", "t", "p", ":", "/", "/">>
IssuesPath == <<"/", "i", "s", "s", "u", "e", "s", "/">>
NotApplicable == <<"n", "/", "a">>

ParseUrls ==
    {sc \o h \o pa \o t :
        sc \in {<<>>, HttpScheme, HttpsScheme},
        h \in {<<>>, AcmeCloudHost, JiraCloudHost, OnPremiseHost, OtherHost},
        pa \in {<<>>, Browse, IssuesPath},
        t \in {<<>>, Proj123, Proj123Lower, ShortKey}}

ParseAnnotations ==
    {NonDictAnnotation}
    \cup {Annotation(u, d) : u \in ParseUrls, d \in {<<>>, Proj123, NotApplicable}}

\* One Sentry issue carries one arbitrary annotation, the others none.
ParseInit ==
    /\ kind = "sentry" /\ now = 0
    /\ org = [o \in OrgIds |-> NewOrg(TRUE, NULL)]
    /\ remote = [o \in OrgIds |-> CleanRemote("ok")]
    /\ projects = <<>> /\ issues = <<>> /\ logs = <<>>
    /\ run = IdleRun /\ call = IdleCall
    /\ last = [org |-> 0, np |-> 0, ni |-> 0]
    /\ annotations \in {[s \in SentryIssueIds |-> IF s = 1 THEN Fetched(<<a>>) ELSE Fetched(<<>>)] :
                          a \in ParseAnnotations}
    /\ titles = <<>> /\ summaries = <<>> /\ links = <<>>
    /\ pass = IdlePass
    /\ NoPagination

\* The linkable_issues list of get_linkable_issues_preview: the issues whose
\* fetched annotations yield at least one ticket, with those tickets.
RECURSIVE LinkableIssues(_)
LinkableIssues(s) ==
    IF s > NumSentryIssues THEN <<>>
    ELSE LET tickets == ExtractJiraTickets(annotations[s].list, 1) IN
         IF annotations[s].ok /\ tickets # <<>>
         THEN <<[sentry_issue |-> s, jira_tickets |-> tickets]>> \o LinkableIssues(s + 1)
         ELSE LinkableIssues(s + 1)

\* sentry_auto_link_jira --preview: SentryJiraLinkingService.get_linkable_issues_preview.
GetLinkableIssuesPreview ==
    /\ pass.cmd = "none"
    /\ pass' = [cmd |-> "preview", linkable |-> LinkableIssues(1)]
    /\ UNCHANGED <<syncvars, annotations, titles, summaries, links, pagevars>>

\* The command has printed its report.
PreviewDone ==
    /\ pass.cmd = "preview"
    /\ pass' = IdlePass
    /\ UNCHANGED <<syncvars, annotations, titles, summaries, links, pagevars>>

ParseNext == GetLinkableIssuesPreview \/ PreviewDone

ParseSpec == ParseInit /\ [][ParseNext]_vars

\* The tickets the preview lists for the Sentry issue s.
PreviewTickets(s) ==
    LET hit == {i \in DOMAIN pass.linkable : pass.linkable[i].sentry_issue = s}
    IN IF hit = {} THEN <<>> ELSE pass.linkable[CHOOSE i \in hit : TRUE].jira_tickets

\* C16: for the one annotation a of Sentry issue 1, the preview lists key
\* PROJ-123 when a's URL is https://acme.atlassian.net/browse/PROJ-123, lists
\* the same key when a's only content is the bare text PROJ-123 (in its url
\* or in its displayName, the other being empty), lists nothing when a is the
\* unrelated URL https://example.com/issues/ without display name; it never
\* lists more than one key for a, and a key found in the URL is the match of
\* the first pattern of the list that matches the URL.
C16_AnnotationParser ==
    pass.cmd = "preview" =>
        LET a == annotations[1].list[1]
            t == PreviewTickets(1)
        IN /\ Len(t) <= 1
           /\ (a.dict /\ a.url = HttpsScheme \o AcmeCloudHost \o Browse \o Proj123)
                 => (Len(t) = 1 /\ t[1].ticket_key = Proj123)
           /\ (a.dict /\ ((a.url = Proj123 /\ a.displayName = <<>>)
                          \/ (a.url = <<>> /\ a.displayName = Proj123)))
                 => (Len(t) = 1 /\ t[1].ticket_key = Proj123)
           /\ (a.dict /\ a.url = HttpsScheme \o OtherHost \o IssuesPath /\ a.displayName = <<>>)
                 => t = <<>>
           /\ \A i \in DOMAIN t :
                 t[i].pattern \in 1..3
                    => /\ t[i] = ReSearch(t[i].pattern, a.url)
                       /\ \A n \in 1..(t[i].pattern - 1) : ~ReSearch(n, a.url).matched

(* ---------------------- explicit-reference linking --------------------- *)
\* In a behaviour of the correlation passes the tables projects and issues
\* are JiraProject and JiraIssue rows (kind = "jira", keys are texts), org
\* are the JiraOrganization rows and remote their Jira Cloud accounts.

\* JiraOrganization.base_url of the organization o.
OrgBaseUrl(o) ==
    IF o = 1 THEN HttpsScheme \o AcmeCloudHost ELSE HttpsScheme \o OtherHost

\* The tickets the Jira account of organization o holds.
RemoteTickets(o) == IF o = 1 THEN {Proj123} ELSE {Ops7}

\* str.replace(lit, ''): every occurrence of lit removed, left to right.
RECURSIVE RemoveAll(_, _)
RemoveAll(s, lit) ==
    IF s = <<>> THEN <<>>
    ELSE IF HasAt(s, 1, lit) THEN RemoveAll(SubSeq(s, Len(lit) + 1, Len(s)), lit)
    ELSE <<Head(s)>> \o RemoveAll(Tail(s), lit)

\* base_url__icontains=...: the texts here are lower-case.
Contains(hay, needle) == \E i \in 1..(Len(hay) + 1) : HasAt(hay, i, needle)

\* ticket_key.split('-')[0]
ProjectKeyOf(ticket_key) ==
    LET dashes == {i \in DOMAIN ticket_key : ticket_key[i] = "-"} IN
    IF dashes = {} THEN ticket_key
    ELSE SubSeq(ticket_key, 1, (CHOOSE i \in dashes : \A j \in dashes : i <= j) - 1)

MinOf(S) == CHOOSE x \in S : \A y \in S : x <= y

\* JiraOrganization.objects.filter(base_url__icontains=<host of base_url>).
OrgsAtBaseUrl(base_url) ==
    LET host == RemoveAll(RemoveAll(base_url, HttpsScheme), HttpScheme) IN
    {o \in OrgIds : Contains(OrgBaseUrl(o), host)}

\* The base URLs the parsed annotations carry, and the organizations at each
\* of them, computed once.
BaseUrls == {HttpsScheme \o AcmeCloudHost, HttpsScheme \o JiraCloudHost}
OrgsByBaseUrl == [b \in BaseUrls |-> OrgsAtBaseUrl(b)] @@ <<>>

\* The organization _fetch_and_create_missing_jira_ticket asks: the first
\* whose base_url contains the annotation's host, else the owner of a stored
\* project with the ticket's project key, else the first enabled one; 0: none.
FetchOrg(ptable, info) ==
    LET byUrl == IF info.base_url = <<>> THEN {}
                 ELSE IF info.base_url \in BaseUrls THEN OrgsByBaseUrl[info.base_url]
                 ELSE OrgsAtBaseUrl(info.base_url)
        byProject == {i \in DOMAIN ptable : ptable[i].key = ProjectKeyOf(info.ticket_key)}
        enabled == {o \in OrgIds : org[o].sync_enabled}
    IN IF byUrl # {} THEN MinOf(byUrl)
       ELSE IF byProject # {} THEN ptable[MinOf(byProject)].org
       ELSE IF enabled # {} THEN MinOf(enabled)
       ELSE 0

\* Mutant: the missing project is never created.
FetchAndCreateJiraProjectFails(ptable, o, pkey) == [table |-> ptable, ok |-> FALSE, project |-> 0]

\* _fetch_and_create_jira_project: client.get_project, then JiraProject.objects.create.
FetchAndCreateJiraProject(ptable, o, pkey) ==
    IF remote[o].mode # "ok" THEN [table |-> ptable, ok |-> FALSE, project |-> 0]
    ELSE [table |-> Append(ptable, [org |-> o, key |-> pkey, total |-> 0,
                                    open |-> 0, in_progress |-> 0, done |-> 0]),
          ok |-> TRUE, project |-> Len(ptable) + 1]

\* _fetch_and_create_missing_jira_ticket on the tables st: the tables after
\* it, whether it succeeded and the JiraIssue row it returns.
FetchAndCreateMissingJiraTicket(st, info) ==
    LET o == FetchOrg(st.projects, info)
        pkey == ProjectKeyOf(info.ticket_key)
        failed == [projects |-> st.projects, issues |-> st.issues, ok |-> FALSE, jira_issue |-> 0]
    IN IF o = 0 THEN failed
       ELSE IF ~ProbeSucceeds(remote[o]) THEN failed
       ELSE IF remote[o].mode # "ok" \/ info.ticket_key \notin RemoteTickets(o) THEN failed
       ELSE LET stored == {i \in DOMAIN st.projects :
                              st.projects[i].org = o /\ st.projects[i].key = pkey}
                pr == IF stored # {}
                      THEN [table |-> st.projects, ok |-> TRUE, project |-> MinOf(stored)]
                      ELSE FetchAndCreateJiraProject(st.projects, o, pkey)
            IN IF ~pr.ok THEN failed
               ELSE LET u == UpsertIssue(st.issues, pr.project,
                                         [key |-> info.ticket_key, cat |-> "new"])
                        found == {i \in DOMAIN u.table :
                                     u.table[i].project = pr.project
                                     /\ u.table[i].key = info.ticket_key}
                    IN IF u.ok /\ found # {}
                       THEN [projects |-> pr.table, issues |-> u.table, ok |-> TRUE,
                             jira_issue |-> MinOf(found)]
                       ELSE [projects |-> pr.table, issues |-> u.table, ok |-> FALSE,
                             jira_issue |-> 0]

\* Mutant: a stored link is never found.
LinkRowsNeverFound(table, s, j) == {}

\* The SentryJiraLink rows of the pair (sentry_issue, jira_issue): what the
\* existence check filters for and what unique_together forbids two of.
LinkRows(table, s, j) ==
    {i \in DOMAIN table : table[i].sentry_issue = s /\ table[i].jira_issue = j}

\* SentryJiraLink.objects.create(link_type='auto', ...): IntegrityError when
\* the pair is stored already.
CreateLink(table, s, j, notes) ==
    IF LinkRows(table, s, j) # {} THEN [table |-> table, ok |-> FALSE]
    ELSE [table |-> Append(table, [sentry_issue |-> s, jira_issue |-> j,
                                   link_type |-> "auto", creation_notes |-> notes,
                                   sync_sentry_to_jira |-> TRUE,
                                   sync_jira_to_sentry |-> TRUE]),
          ok |-> TRUE]

\* The ticket after the local lookup missed and the fetch answered: the
\* tables the fetch left, the message appended to errors (entries are kept as
\* the kind of message and the ticket key) and the row to link, 0 when none.
AfterFetch(acc, info, fetch) ==
    [acc |-> [acc EXCEPT !.projects = fetch.projects, !.issues = fetch.issues,
                         !.errors = Append(@, [msg |-> IF fetch.ok THEN "auto_fetched"
                                                       ELSE "not_fetched",
                                               key |-> info.ticket_key])],
     jira_issue |-> fetch.jira_issue]

\* JiraIssue.objects.filter(jira_key=ticket_key).first(), and the fetch of
\* the ticket when no row has the key.
FindOrFetch(acc, info, local) ==
    IF local # {} THEN [acc |-> acc, jira_issue |-> MinOf(local)]
    ELSE AfterFetch(acc, info, FetchAndCreateMissingJiraTicket(acc, info))

\* The outcome of SentryJiraLink.objects.create inside the try: the link is
\* counted, or the exception becomes an entry of errors.
AfterCreate(acc, info, c) ==
    IF c.ok THEN [acc EXCEPT !.links = c.table, !.links_created = @ + 1]
    ELSE [acc EXCEPT !.errors = Append(@, [msg |-> "error_linking", key |-> info.ticket_key])]

\* The existence check and the creation of the link for the row found.
LinkFound(info, s, force_update, acc, j) ==
    IF j = 0 THEN acc
    ELSE IF LinkRows(acc.links, s, j) # {} /\ ~force_update
    THEN [acc EXCEPT !.errors = Append(@, [msg |-> "already_exists",
                                           key |-> info.ticket_key])]
    ELSE IF LinkRows(acc.links, s, j) # {} THEN acc
    ELSE AfterCreate(acc, info, CreateLink(acc.links, s, j, info.full_url))

\* One iteration of the for-loop of link_sentry_issue_to_jira_tickets.
LinkTicket(info, s, force_update, found) ==
    LinkFound(info, s, force_update, found.acc, found.jira_issue)

\* The for-loop of link_sentry_issue_to_jira_tickets over the tickets found
\* in the annotations; acc carries the tables, links_created and the errors
\* list.
RECURSIVE LinkTickets(_, _, _, _, _)
LinkTickets(tickets, i, s, force_update, acc) ==
    IF i > Len(tickets) THEN acc
    ELSE LinkTickets(tickets, i + 1, s, force_update,
             LinkTicket(tickets[i], s, force_update,
                 FindOrFetch(acc, tickets[i],
                     {k \in DOMAIN acc.issues : acc.issues[k].key = tickets[i].ticket_key})))

CloudRef == Annotation(HttpsScheme \o AcmeCloudHost \o Browse \o Proj123, <<>>)
BareRef == Annotation(Ops7, <<>>)
BadRef == Annotation(HttpsScheme \o AcmeCloudHost \o Browse \o Proj123Lower, <<>>)

\* The annotation lists a Sentry issue can have here: references that parse
\* (a Cloud URL, a bare key), one that does not (BadRef), alone and mixed.
AnnotationLists ==
    {<<>>, <<CloudRef>>, <<BadRef, CloudRef>>, <<CloudRef, CloudRef>>, <<BareRef, BadRef>>}

\* extract_jira_tickets_from_annotations of every annotation list a Sentry
\* issue can have here, computed once.
ExtractedTickets == [l \in AnnotationLists |-> ExtractJiraTickets(l, 1)] @@ <<>>

\* What the Sentry API can answer for the annotations of an issue.
LinkFetches == {Fetched(l) : l \in AnnotationLists} \cup {FetchFailed}

\* The results dict and the tables when the loop never ran.
NotLinked(st, msg) ==
    [projects |-> st.projects, issues |-> st.issues, links |-> st.links,
     results |-> [success |-> FALSE, links_created |-> 0, links_found |-> 0,
                  errors |-> <<[msg |-> msg, key |-> <<>>]>>,
                  jira_tickets |-> <<>>]]

\* The results dict and the tables after the loop over the tickets.
Linked(tickets, acc) ==
    [projects |-> acc.projects, issues |-> acc.issues, links |-> acc.links,
     results |-> [success |-> acc.links_created > 0 \/ acc.errors = <<>>,
                  links_created |-> acc.links_created,
                  links_found |-> Len(tickets),
                  errors |-> acc.errors,
                  jira_tickets |-> tickets]]

\* link_sentry_issue_to_jira_tickets once the annotations are extracted.
LinkExtracted(st, s, force_update, tickets) ==
    IF ~annotations[s].ok THEN NotLinked(st, "sentry_fetch_failed")
    ELSE IF tickets = <<>> THEN NotLinked(st, "no_tickets")
    ELSE Linked(tickets,
             LinkTickets(tickets, 1, s, force_update,
                 [projects |-> st.projects, issues |-> st.issues, links |-> st.links,
                  links_created |-> 0, errors |-> <<>>]))

\* link_sentry_issue_to_jira_tickets(sentry_issue, force_update) on the
\* tables st: the tables after it and its results dict.
LinkSentryIssueToJiraTickets(st, s, force_update) ==
    LinkExtracted(st, s, force_update, ExtractedTickets[annotations[s].list])

\* The results of an issue the pass did not reach.
NoResults ==
    [success |-> FALSE, links_created |-> 0, links_found |-> 0, errors |-> <<>>,
     jira_tickets |-> <<>>]

\* The ids in sentry_issue_id of the stored links.
LinkedIssueIds(table) == {table[i].sentry_issue : i \in DOMAIN table}

\* The bookkeeping of scan_and_link_all_sentry_issues after issue s gave the
\* results r: tables, processed issues, per-issue results and the summary.
Scanned(acc, s, r, found) ==
    [projects |-> r.projects, issues |-> r.issues, links |-> r.links,
     processed |-> acc.processed \cup {s},
     results |-> [acc.results EXCEPT ![s] = r.results],
     summary |->
        [issues_processed |-> acc.summary.issues_processed + 1,
         issues_skipped |-> acc.summary.issues_skipped,
         issues_with_jira_links |-> acc.summary.issues_with_jira_links
                                     + (IF found THEN 1 ELSE 0),
         total_links_created |-> acc.summary.total_links_created
                                  + (IF found THEN r.results.links_created ELSE 0),
         errors |-> acc.summary.errors
                     \o [k \in 1..Len(r.results.errors) |->
                           [issue |-> s, msg |-> r.results.errors[k].msg,
                            key |-> r.results.errors[k].key]]]]

\* One iteration of the for-loop of scan_and_link_all_sentry_issues.
ScanIssue(acc, s, r) == Scanned(acc, s, r, r.results.links_found > 0)

\* The for-loop of scan_and_link_all_sentry_issues over the queryset (the
\* issues in id order); acc carries the tables, the summary and the results
\* of every processed issue.
RECURSIVE ScanIssues(_, _, _, _)
ScanIssues(queryset, i, skip_linked, acc) ==
    IF i > Len(queryset) THEN acc
    ELSE IF skip_linked /\ queryset[i] \in LinkedIssueIds(acc.links)
    THEN ScanIssues(queryset, i + 1, skip_linked,
             [acc EXCEPT !.summary.issues_skipped = @ + 1])
    ELSE ScanIssues(queryset, i + 1, skip_linked,
             ScanIssue(acc, queryset[i],
                 LinkSentryIssueToJiraTickets(acc, queryset[i], FALSE)))

\* The SentryIssue ids a queryset yields, in order.
RECURSIVE IdsInOrder(_, _)
IdsInOrder(S, i) ==
    IF i > NumSentryIssues THEN <<>>
    ELSE (IF i \in S THEN <<i>> ELSE <<>>) \o IdsInOrder(S, i + 1)

EmptySummary ==
    [issues_processed |-> 0, issues_skipped |-> 0, issues_with_jira_links |-> 0,
     total_links_created |-> 0, errors |-> <<>>]

Tables == [projects |-> projects, issues |-> issues, links |-> links]

\* scan_and_link_all_sentry_issues(skip_linked=...), the pass of the commands
\* sentry_auto_link_jira and sync_sentry --link-jira.
ScanAndLinkAll(skip_linked) ==
    /\ kind = "jira"
    /\ \E acc \in {ScanIssues(IdsInOrder(IF skip_linked
                                         THEN SentryIssueIds \ LinkedIssueIds(links)
                                         ELSE SentryIssueIds, 1),
                              1, skip_linked,
                              [projects |-> projects, issues |-> issues, links |-> links,
                               processed |-> {},
                               results |-> [s \in SentryIssueIds |-> NoResults],
                               summary |-> EmptySummary])} :
          /\ projects' = acc.projects
          /\ issues' = acc.issues
          /\ links' = acc.links
          /\ pass' = [cmd |-> "scan", force_update |-> FALSE, skip_linked |-> skip_linked,
                      before |-> Tables, processed |-> acc.processed,
                      results |-> acc.results, summary |-> acc.summary]
    /\ UNCHANGED <<kind, now, org, remote, logs, run, call, last>>
    /\ UNCHANGED <<annotations, titles, summaries, pagevars>>

\* JiraLinkingService.link_sentry_issue_to_jira_tickets called for one issue.
LinkSentryIssue(s, force_update) ==
    /\ kind = "jira"
    /\ \E r \in {LinkSentryIssueToJiraTickets(Tables, s, force_update)} :
          /\ projects' = r.projects
          /\ issues' = r.issues
          /\ links' = r.links
          /\ pass' = [cmd |-> "link", force_update |-> force_update, skip_linked |-> FALSE,
                      before |-> Tables, processed |-> {s},
                      results |-> [t \in SentryIssueIds |->
                                      IF t = s THEN r.results ELSE NoResults],
                      summary |-> EmptySummary]
    /\ UNCHANGED <<kind, now, org, remote, logs, run, call, last>>
    /\ UNCHANGED <<annotations, titles, summaries, pagevars>>

(* ------------------------------ fuzzy matcher --------------------------- *)
\* Scores are fractions [n, d] with d > 0; thresholds are hundredths.

UpperSeq == <<"A", "B", "C", "D", "E", "F", "G", "H", "I", "J", "K", "L", "M">>
            \o <<"N", "O", "P", "Q", "R", "S", "T", "U", "V", "W", "X", "Y", "Z">>
LowerSeq == <<"a", "b", "c", "d", "e", "f", "g", "h", "i", "j", "k", "l", "m">>
            \o <<"n", "o", "p", "q", "r", "s", "t", "u", "v", "w", "x", "y", "z">>

\* str.lower() of one character.
Lower(c) ==
    IF \E i \in DOMAIN UpperSeq : UpperSeq[i] = c
    THEN LowerSeq[CHOOSE i \in DOMAIN UpperSeq : UpperSeq[i] = c]
    ELSE c

LowerText(s) == [i \in DOMAIN s |-> Lower(s[i])]

\* The characters \w matches in the texts here.
WordChars == {LowerSeq[i] : i \in DOMAIN LowerSeq} \cup UpperLetters \cup Digits \cup {"_"}

\* re.sub(r'^<lit>\s*', '', s)
StripPrefix(s, lit) ==
    IF HasAt(s, 1, lit)
    THEN SubSeq(s, RunEnd(s, Len(lit) + 1, {" "}) + 1, Len(s))
    ELSE s

\* re.sub(r'^\[.*?\]\s*', '', s)
StripTag(s) ==
    LET closing == {i \in DOMAIN s : i > 1 /\ s[i] = "]"} IN
    IF s # <<>> /\ s[1] = "[" /\ closing # {}
    THEN SubSeq(s, RunEnd(s, MinOf(closing) + 1, {" "}) + 1, Len(s))
    ELSE s

ErrorPrefix == <<"e", "r", "r", "o", "r", ":">>
ExceptionPrefix == <<"e", "x", "c", "e", "p", "t", "i", "o", "n", ":">>
WarningPrefix == <<"w", "a", "r", "n", "i", "n", "g", ":">>
BugPrefix == <<"b", "u", "g", ":">>

\* re.sub(r'[^\w\s]', ' ', s)
PunctuationToSpace(s) == [i \in DOMAIN s |-> IF s[i] \in WordChars \cup {" "} THEN s[i] ELSE " "]

\* str.split(): the maximal runs of non-space characters.
RECURSIVE Split(_)
Split(s) ==
    IF s = <<>> THEN <<>>
    ELSE IF s[1] = " " THEN Split(Tail(s))
    ELSE LET e == RunEndNot(s, 1, {" "}) IN
         <<SubSeq(s, 1, e)>> \o Split(SubSeq(s, e + 1, Len(s)))

\* ' '.join(words)
RECURSIVE Join(_)
Join(words) ==
    IF words = <<>> THEN <<>>
    ELSE IF Len(words) = 1 THEN words[1]
    ELSE words[1] \o <<" ">> \o Join(Tail(words))

\* _clean_title
CleanTitle(title) ==
    IF title = <<>> THEN <<>>
    ELSE Join(Split(PunctuationToSpace(
            StripTag(StripPrefix(StripPrefix(StripPrefix(StripPrefix(
                LowerText(title), ErrorPrefix), ExceptionPrefix), WarningPrefix), BugPrefix)))))

StopWords ==
    {<<"t", "h", "e">>,
     <<"a">>,
     <<"a", "n">>,
     <<"a", "n", "d">>,
     <<"o", "r">>,
     <<"b", "u", "t">>,
     <<"i", "n">>,
     <<"o", "n">>,
     <<"a", "t">>,
     <<"t", "o">>,
     <<"f", "o", "r">>,
     <<"o", "f">>,
     <<"w", "i", "t", "h">>,
     <<"b", "y">>,
     <<"i", "s">>,
     <<"a", "r", "e">>,
     <<"w", "a", "s">>,
     <<"w", "e", "r", "e">>,
     <<"b", "e">>,
     <<"b", "e", "e", "n">>,
     <<"h", "a", "v", "e">>,
     <<"h", "a", "s">>,
     <<"h", "a", "d">>,
     <<"d", "o">>,
     <<"d", "o", "e", "s">>,
     <<"d", "i", "d">>,
     <<"w", "i", "l", "l">>,
     <<"w", "o", "u", "l", "d">>,
     <<"c", "o", "u", "l", "d">>,
     <<"s", "h", "o", "u", "l", "d">>,
     <<"c", "a", "n">>,
     <<"c", "a", "n", "n", "o", "t">>,
     <<"c", "a", "n", "t">>,
     <<"t", "h", "i", "s">>,
     <<"t", "h", "a", "t">>,
     <<"t", "h", "e", "s", "e">>,
     <<"t", "h", "o", "s", "e">>,
     <<"e", "r", "r", "o", "r">>,
     <<"e", "x", "c", "e", "p", "t", "i", "o", "n">>,
     <<"w", "a", "r", "n", "i", "n", "g">>,
     <<"i", "s", "s", "u", "e">>,
     <<"p", "r", "o", "b", "l", "e", "m">>,
     <<"b", "u", "g">>}

\* _extract_keywords
ExtractKeywords(title) ==
    LET keep(w) == Len(w) > 2 /\ w \notin StopWords IN
    SelectSeq(Split(title), keep)

SeqToSet(q) == {q[i] : i \in DOMAIN q}

Zero == [n |-> 0, d |-> 1]

\* len(intersection) / len(union), 0.0 when either set is empty.
Overlap(A, B) ==
    IF A # {} /\ B # {}
    THEN [n |-> Cardinality(A \cap B), d |-> Cardinality(A \cup B)]
    ELSE Zero

\* The length of the common run of a from i and b from j, below ahi and bhi.
RECURSIVE CommonRun(_, _, _, _, _, _)
CommonRun(a, b, i, j, ahi, bhi) ==
    IF i < ahi /\ j < bhi /\ a[i] = b[j]
    THEN 1 + CommonRun(a, b, i + 1, j + 1, ahi, bhi)
    ELSE 0

\* SequenceMatcher.find_longest_match(alo, ahi, blo, bhi): the longest common
\* block, the earliest in a and then the earliest in b among the longest.
FindLongestMatch(a, b, alo, ahi, blo, bhi) ==
    LET starts == (alo..(ahi - 1)) \X (blo..(bhi - 1))
        size(p) == CommonRun(a, b, p[1], p[2], ahi, bhi)
        best == CHOOSE p \in starts :
                    \A q \in starts :
                        \/ size(p) > size(q)
                        \/ size(p) = size(q) /\ p[1] < q[1]
                        \/ size(p) = size(q) /\ p[1] = q[1] /\ p[2] <= q[2]
    IN IF starts = {} THEN [i |-> alo, j |-> blo, size |-> 0]
       ELSE [i |-> best[1], j |-> best[2], size |-> size(best)]

\* The characters in SequenceMatcher.get_matching_blocks() of a[alo:ahi] and b[blo:bhi].
RECURSIVE MatchingChars(_, _, _, _, _, _)
MatchingChars(a, b, alo, ahi, blo, bhi) ==
    LET m == FindLongestMatch(a, b, alo, ahi, blo, bhi) IN
    IF m.size = 0 THEN 0
    ELSE m.size + MatchingChars(a, b, alo, m.i, blo, m.j)
                + MatchingChars(a, b, m.i + m.size, ahi, m.j + m.size, bhi)

\* SequenceMatcher(None, a, b).ratio()
SequenceRatio(a, b) ==
    IF Len(a) + Len(b) = 0 THEN [n |-> 1, d |-> 1]
    ELSE [n |-> 2 * MatchingChars(a, b, 1, Len(a) + 1, 1, Len(b) + 1), d |-> Len(a) + Len(b)]

\* _calculate_substring_similarity
SubstringSimilarity(text1, text2) ==
    IF text1 = <<>> \/ text2 = <<>> THEN Zero
    ELSE [n |-> FindLongestMatch(text1, text2, 1, Len(text1) + 1, 1, Len(text2) + 1).size,
          d |-> IF Len(text1) < Len(text2) THEN Len(text1) ELSE Len(text2)]

\* _calculate_similarity_scores
CalculateSimilarityScores(sentry_title, jira_summary) ==
    [sequence_similarity |-> SequenceRatio(sentry_title, jira_summary),
     word_overlap |-> Overlap(SeqToSet(Split(sentry_title)), SeqToSet(Split(jira_summary))),
     keyword_overlap |-> Overlap(SeqToSet(ExtractKeywords(sentry_title)),
                                 SeqToSet(ExtractKeywords(jira_summary))),
     substring_similarity |-> SubstringSimilarity(sentry_title, jira_summary)]

\* x >= y for two fractions.
AtLeast(x, y) == x.n * y.d >= y.n * x.d

\* score >= pct / 100
Reaches(score, pct) == score.n * 100 >= pct * score.d

Larger(x, y) == IF AtLeast(x, y) THEN x ELSE y

\* max(similarity_scores.values())
MaxSimilarity(scores) ==
    Larger(Larger(scores.sequence_similarity, scores.word_overlap),
           Larger(scores.keyword_overlap, scores.substring_similarity))

\* SentryJiraFuzzyMatchingService.min_similarity and min_title_length, the
\* keywords the candidate query uses, the matches a suggestion keeps, the
\* score of a high-confidence match, the default min_confidence_score.
min_similarity == 70
min_title_length == 10
MaxQueryKeywords == 5
TopMatches == 3
HighConfidence == 80
DefaultMinConfidence == 85

\* Titles of Sentry issues and summaries of Jira tickets.
TitlePaymentTimeout == <<"E", "r", "r", "o", "r", ":", " ", "p", "a", "y", "m", "e", "n", "t", " ", "t", "i", "m", "e", "o", "u", "t">>
TitleGatewayTimeout == <<"p", "a", "y", "m", "e", "n", "t", " ", "g", "a", "t", "e", "w", "a", "y", " ", "t", "i", "m", "e", "o", "u", "t">>
TitleShort == <<"d", "b", " ", "d", "o", "w", "n">>
SummaryPaymentTimeout == <<"P", "a", "y", "m", "e", "n", "t", " ", "t", "i", "m", "e", "o", "u", "t">>
SummaryPayment == <<"p", "a", "y", "m", "e", "n", "t">>
SummaryTimeoutInGateway == <<"t", "i", "m", "e", "o", "u", "t", " ", "i", "n", " ", "p", "a", "y", "m", "e", "n", "t", " ", "g", "a", "t", "e", "w", "a", "y">>
SummaryTimingOut == <<"p", "a", "y", "m", "e", "n", "t", "s", " ", "t", "i", "m", "i", "n", "g", " ", "o", "u", "t">>
SummaryLogin == <<"l", "o", "g", "i", "n", " ", "p", "a", "g", "e", " ", "c", "r", "a", "s", "h">>

Titles == {TitlePaymentTimeout, TitleGatewayTimeout, TitleShort}
Summaries ==
    {SummaryPaymentTimeout, SummaryPayment, SummaryTimeoutInGateway, SummaryTimingOut,
     SummaryLogin}

TicketKeys == {Proj123, Ops7}

\* _calculate_similarity_scores of the cleaned texts, for every title and
\* summary here, computed once.
SimilarityScores ==
    [p \in Titles \X Summaries |->
        CalculateSimilarityScores(CleanTitle(p[1]), CleanTitle(p[2]))] @@ <<>>

\* _get_potential_jira_matches: the summary contains one of the first five
\* keywords of the cleaned title (summary__icontains), computed once.
PotentialMatch ==
    [p \in Titles \X Summaries |->
        LET keywords == ExtractKeywords(CleanTitle(p[1])) IN
        \E k \in DOMAIN keywords :
            k <= MaxQueryKeywords /\ Contains(LowerText(p[2]), keywords[k])] @@ <<>>

\* matches.sort(key=similarity_score, reverse=True): stable, highest first.
RECURSIVE SortMatches(_)
SortMatches(ms) ==
    IF ms = <<>> THEN <<>>
    ELSE LET rest == SortMatches(Tail(ms))
             ahead == {i \in DOMAIN rest :
                          ~AtLeast(Head(ms).similarity_score, rest[i].similarity_score)}
             n == IF ahead = {} THEN 0 ELSE CHOOSE i \in ahead : \A j \in ahead : j <= i
         IN SubSeq(rest, 1, n) \o <<Head(ms)>> \o SubSeq(rest, n + 1, Len(rest))

\* The body of the loop of find_matching_jira_tickets for the row j: the
\* match appended when the row is a candidate and its best score reaches the
\* threshold.
Candidate(j, potential, scores, threshold) ==
    IF potential /\ Reaches(MaxSimilarity(scores), threshold)
    THEN <<[jira_issue |-> j, similarity_score |-> MaxSimilarity(scores),
            similarity_details |-> scores]>>
    ELSE <<>>

\* The loop of find_matching_jira_tickets over the candidate rows from row j on.
RECURSIVE MatchesFrom(_, _, _, _)
MatchesFrom(itable, title, threshold, j) ==
    IF j > Len(itable) THEN <<>>
    ELSE Candidate(j, PotentialMatch[<<title, summaries[itable[j].key]>>],
                   SimilarityScores[<<title, summaries[itable[j].key]>>], threshold)
         \o MatchesFrom(itable, title, threshold, j + 1)

\* find_matching_jira_tickets(sentry_issue, similarity_threshold); a
\* threshold of 0 (or None) falls back to min_similarity.
FindMatchingJiraTickets(itable, s, similarity_threshold) ==
    LET threshold == IF similarity_threshold = 0 THEN min_similarity
                     ELSE similarity_threshold
    IN IF Len(titles[s]) < min_title_length THEN <<>>
       ELSE SortMatches(MatchesFrom(itable, titles[s], threshold, 1))

\* The counters and the suggestion of scan_and_suggest_matches for the issue
\* s with its matches; high: some match scores at least 0.8.
Suggested(acc, s, matches, high) ==
    [issues_scanned |-> acc.issues_scanned + 1,
     potential_matches_found |-> acc.potential_matches_found
                                  + (IF matches # <<>> THEN 1 ELSE 0),
     high_confidence_matches |-> acc.high_confidence_matches
                                  + (IF high THEN 1 ELSE 0),
     suggestions |-> IF matches = <<>> THEN acc.suggestions
                     ELSE Append(acc.suggestions,
                             [sentry_issue |-> s,
                              matches |-> SubSeq(matches, 1,
                                            IF Len(matches) < TopMatches
                                            THEN Len(matches) ELSE TopMatches),
                              best_match |-> matches[1],
                              confidence |-> IF high THEN "high" ELSE "medium"])]

\* One iteration of the for-loop of scan_and_suggest_matches.
SuggestFor(acc, s, matches) ==
    Suggested(acc, s, matches,
              \E k \in DOMAIN matches : Reaches(matches[k].similarity_score, HighConfidence))

\* The for-loop of scan_and_suggest_matches over the unlinked Sentry issues.
RECURSIVE Suggest(_, _, _, _)
Suggest(queryset, i, threshold, acc) ==
    IF i > Len(queryset) THEN acc
    ELSE Suggest(queryset, i + 1, threshold,
             SuggestFor(acc, queryset[i],
                        FindMatchingJiraTickets(issues, queryset[i], threshold)))

\* scan_and_suggest_matches(similarity_threshold=...)
ScanAndSuggestMatches(similarity_threshold) ==
    Suggest(IdsInOrder(SentryIssueIds \ LinkedIssueIds(links), 1), 1,
            IF similarity_threshold = 0 THEN min_similarity ELSE similarity_threshold,
            [issues_scanned |-> 0, potential_matches_found |-> 0,
             high_confidence_matches |-> 0, suggestions |-> <<>>])

\* Mutant: the flag is not consulted.
ShouldAutoCreateIgnoresFlag(auto_create_high_confidence, similarity_score, min_confidence_score) ==
    Reaches(similarity_score, min_confidence_score)

\* should_auto_create of create_links_from_suggestions.
ShouldAutoCreate(auto_create_high_confidence, similarity_score, min_confidence_score) ==
    auto_create_high_confidence /\ Reaches(similarity_score, min_confidence_score)

FuzzyNotes == <<"f", "u", "z", "z", "y">>

\* The outcome of SentryJiraLink.objects.create inside the try of
\* create_links_from_suggestions.
AutoCreated(acc, c) ==
    IF c.ok
    THEN [acc EXCEPT !.links = c.table, !.links_created = @ + 1,
                     !.high_confidence_created = @ + 1]
    ELSE [acc EXCEPT !.errors = @ + 1]

\* One iteration of the for-loop of create_links_from_suggestions.
CreateLinkFromSuggestion(acc, sg, auto_create_high_confidence, min_confidence_score) ==
    IF LinkRows(acc.links, sg.sentry_issue, sg.best_match.jira_issue) # {} THEN acc
    ELSE IF ShouldAutoCreate(auto_create_high_confidence,
                             sg.best_match.similarity_score, min_confidence_score)
    THEN AutoCreated(acc, CreateLink(acc.links, sg.sentry_issue,
                                     sg.best_match.jira_issue, FuzzyNotes))
    ELSE [acc EXCEPT !.manual_review_needed = @ + 1]

\* The for-loop of create_links_from_suggestions.
RECURSIVE CreateLinks(_, _, _, _, _)
CreateLinks(suggestions, i, auto_create_high_confidence, min_confidence_score, acc) ==
    IF i > Len(suggestions) THEN acc
    ELSE CreateLinks(suggestions, i + 1, auto_create_high_confidence, min_confidence_score,
             CreateLinkFromSuggestion(acc, suggestions[i], auto_create_high_confidence,
                                      min_confidence_score))

\* The fuzzy pass of the commands sentry_fuzzy_match_jira and sync_sentry:
\* scan_and_suggest_matches, then create_links_from_suggestions on its
\* suggestions.
FuzzyMatch(similarity_threshold, auto_create_high_confidence, min_confidence_score) ==
    /\ kind = "jira"
    /\ \E scan \in {ScanAndSuggestMatches(similarity_threshold)} :
       \E r \in {CreateLinks(scan.suggestions, 1, auto_create_high_confidence,
                             min_confidence_score,
                             [links |-> links, links_created |-> 0,
                              high_confidence_created |-> 0, manual_review_needed |-> 0,
                              errors |-> 0])} :
          /\ links' = r.links
          /\ pass' = [cmd |-> "fuzzy", similarity_threshold |-> similarity_threshold,
                      auto_create_high_confidence |-> auto_create_high_confidence,
                      min_confidence_score |-> min_confidence_score,
                      before |-> Tables, scan |-> scan,
                      links_created |-> r.links_created,
                      high_confidence_created |-> r.high_confidence_created,
                      manual_review_needed |-> r.manual_review_needed,
                      errors |-> r.errors]
    /\ UNCHANGED <<syncvars, annotations, titles, summaries, pagevars>>

\* The thresholds and minimum scores the commands are run with.
SimilarityThresholds == {0, min_similarity, HighConfidence}
MinConfidenceScores == {75, DefaultMinConfidence}

\* The Jira tables of an installation that synced both tickets.
SyncedProjects ==
    <<[org |-> 1, key |-> ProjectKeyOf(Proj123), total |-> 1, open |-> 1,
       in_progress |-> 0, done |-> 0],
      [org |-> NumOrgs, key |-> ProjectKeyOf(Ops7), total |-> 1, open |-> 1,
       in_progress |-> 0, done |-> 0]>>
SyncedIssues ==
    <<[project |-> 1, key |-> Proj123, cat |-> "new"],
      [project |-> 2, key |-> Ops7, cat |-> "new"]>>

\* A link a user made by hand.
ManualLink ==
    [sentry_issue |-> 1, jira_issue |-> 1, link_type |-> "manual", creation_notes |-> <<>>,
     sync_sentry_to_jira |-> TRUE, sync_jira_to_sentry |-> TRUE]

LinkInit ==
    /\ kind = "jira" /\ now = 0
    /\ \E e \in BOOLEAN : org = [o \in OrgIds |-> NewOrg(o # 1 \/ e, NULL)]
    /\ remote \in {[o \in OrgIds |-> CleanRemote(m[o])] : m \in [OrgIds -> Modes]}
    /\ projects = <<>> /\ issues = <<>> /\ logs = <<>>
    /\ run = IdleRun /\ call = IdleCall
    /\ last = [org |-> 0, np |-> 0, ni |-> 0]
    /\ annotations \in [SentryIssueIds -> LinkFetches]
    /\ titles = [s \in SentryIssueIds |-> TitlePaymentTimeout]
    /\ summaries = [k \in TicketKeys |->
                       IF k = Proj123 THEN SummaryPaymentTimeout ELSE SummaryPayment]
    /\ links = <<>>
    /\ pass = IdlePass
    /\ NoPagination

LinkNext ==
    \/ \E skip_linked \in BOOLEAN : ScanAndLinkAll(skip_linked)
    \/ \E s \in SentryIssueIds, force_update \in BOOLEAN : LinkSentryIssue(s, force_update)
    \/ FuzzyMatch(HighConfidence, TRUE, DefaultMinConfidence)

LinkSpec == LinkInit /\ [][LinkNext]_vars

FuzzyInit ==
    /\ kind = "jira" /\ now = 0
    /\ org = [o \in OrgIds |-> NewOrg(TRUE, NULL)]
    /\ remote = [o \in OrgIds |-> CleanRemote("ok")]
    /\ projects = SyncedProjects /\ issues = SyncedIssues /\ logs = <<>>
    /\ run = IdleRun /\ call = IdleCall
    /\ last = [org |-> 0, np |-> 0, ni |-> 0]
    /\ annotations = [s \in SentryIssueIds |-> Fetched(<<>>)]
    /\ titles \in [SentryIssueIds -> Titles]
    /\ summaries \in [TicketKeys -> Summaries]
    /\ links \in {<<>>, <<ManualLink>>}
    /\ pass = IdlePass
    /\ NoPagination

FuzzyNext ==
    \E t \in SimilarityThresholds, auto \in BOOLEAN, m \in MinConfidenceScores :
        FuzzyMatch(t, auto, m)

FuzzySpec == FuzzyInit /\ [][FuzzyNext]_vars

\* C17: a fuzzy pass stores a link for a suggestion exactly when
\* auto_create_high_confidence is set and the score of its best match reaches
\* min_confidence_score; otherwise the link table keeps its rows and the
\* suggestion is counted in manual_review_needed.
C17_FuzzyNeverCommitsAlone ==
    pass.cmd = "fuzzy" =>
        LET sgs == pass.scan.suggestions
            applied == {i \in DOMAIN sgs :
                           /\ pass.auto_create_high_confidence
                           /\ Reaches(sgs[i].best_match.similarity_score,
                                      pass.min_confidence_score)}
        IN /\ Len(links) = Len(pass.before.links) + Cardinality(applied)
           /\ SubSeq(links, 1, Len(pass.before.links)) = pass.before.links
           /\ \A i \in applied :
                 LinkRows(links, sgs[i].sentry_issue, sgs[i].best_match.jira_issue) # {}
           /\ \A i \in DOMAIN sgs \ applied :
                 LinkRows(links, sgs[i].sentry_issue, sgs[i].best_match.jira_issue) = {}
           /\ pass.manual_review_needed = Len(sgs) - Cardinality(applied)

\* A pass with the flag set stored the link of one suggestion and left
\* another, whose best score is below the minimum, for manual review.
C17_Witness ==
    /\ pass.cmd = "fuzzy"
    /\ pass.auto_create_high_confidence
    /\ pass.links_created = 1
    /\ pass.manual_review_needed = 1
    /\ \E i \in DOMAIN pass.scan.suggestions :
          /\ Reaches(pass.scan.suggestions[i].best_match.similarity_score, HighConfidence)
          /\ ~Reaches(pass.scan.suggestions[i].best_match.similarity_score,
                      pass.min_confidence_score)

\* C18: a suggestion is 'high' exactly when one of its matches has a
\* keyword-overlap or a sequence-similarity of at least 0.8.
C18_HighBucket ==
    pass.cmd = "fuzzy" =>
        \A i \in DOMAIN pass.scan.suggestions :
            LET sg == pass.scan.suggestions[i] IN
            sg.confidence = "high" <=>
                \E k \in DOMAIN sg.matches :
                    \/ Reaches(sg.matches[k].similarity_details.keyword_overlap, HighConfidence)
                    \/ Reaches(sg.matches[k].similarity_details.sequence_similarity,
                               HighConfidence)

\* The pooled candidates of the Sentry issue s whose final score reaches the
\* threshold pct: rows of the ticket table the keyword query returns for a
\* title that is long enough to be matched.
PooledReaching(itable, s, pct) ==
    {j \in DOMAIN itable :
        /\ Len(titles[s]) >= min_title_length
        /\ PotentialMatch[<<titles[s], summaries[itable[j].key]>>]
        /\ Reaches(MaxSimilarity(SimilarityScores[<<titles[s], summaries[itable[j].key]>>]), pct)}

\* The suggestions of the scan for the Sentry issue s.
SuggestionsFor(sgs, s) == {i \in DOMAIN sgs : sgs[i].sentry_issue = s}

\* C26: for the threshold a fuzzy pass was given, 0 included, every scanned
\* issue with pooled candidates scoring at least the threshold has one
\* suggestion, no other issue has one, and a suggestion lists the candidates
\* scoring at least the threshold, highest first, cut after the top three.
C26_ThresholdHonoured ==
    pass.cmd = "fuzzy" =>
        \A s \in SentryIssueIds \ LinkedIssueIds(pass.before.links) :
            LET expected == PooledReaching(pass.before.issues, s, pass.similarity_threshold)
                mine == SuggestionsFor(pass.scan.suggestions, s)
            IN /\ Cardinality(mine) = IF expected = {} THEN 0 ELSE 1
               /\ \A i \in mine :
                     LET ms == pass.scan.suggestions[i].matches IN
                     /\ Len(ms) = Min(Cardinality(expected), TopMatches)
                     /\ \A k \in DOMAIN ms : ms[k].jira_issue \in expected
                     /\ \A k, l \in DOMAIN ms : k # l => ms[k].jira_issue # ms[l].jira_issue
                     /\ \A k \in DOMAIN ms : k > 1 =>
                           AtLeast(ms[k - 1].similarity_score, ms[k].similarity_score)
                     /\ \A j \in expected :
                           (\A k \in DOMAIN ms : ms[k].jira_issue # j) =>
                               AtLeast(ms[Len(ms)].similarity_score,
                                       MaxSimilarity(SimilarityScores[
                                           <<titles[s], summaries[pass.before.issues[j].key]>>]))

\* A pass given the threshold 0 scanned an issue with a pooled candidate that
\* scores below min_similarity.
C26_ZeroThresholdPass ==
    /\ pass.cmd = "fuzzy" /\ pass.similarity_threshold = 0
    /\ \E s \in SentryIssueIds \ LinkedIssueIds(pass.before.links) :
          PooledReaching(pass.before.issues, s, 0)
             # PooledReaching(pass.before.issues, s, min_similarity)

\* With the thresholds other than 0 the matcher returns what C26 says.
C26_NonZeroThresholdHonoured ==
    (pass.cmd = "fuzzy" /\ pass.similarity_threshold # 0) => C26_ThresholdHonoured

(* ------------------- properties of the explicit pass ------------------- *)

\* C12: after any number and order of correlation passes there is at most
\* one SentryJiraLink row for a (Sentry issue, Jira issue) pair.
C12_OneLinkPerPair ==
    \A i, j \in DOMAIN links :
        (links[i].sentry_issue = links[j].sentry_issue
         /\ links[i].jira_issue = links[j].jira_issue) => i = j

\* A pass met a Sentry issue that was linked before it, and two links are stored.
C12_Witness ==
    /\ pass.cmd \in {"scan", "link"}
    /\ Len(links) >= 2
    /\ \E s \in pass.processed : s \in LinkedIssueIds(pass.before.links)

\* The rows of the table with the ticket key.
RowsWithKey(table, ticket_key) == {j \in DOMAIN table : table[j].key = ticket_key}

\* The tickets of the processed issue s whose link was stored before the pass.
Rediscovered(s) ==
    {k \in DOMAIN pass.results[s].jira_tickets :
        \E j \in RowsWithKey(pass.before.issues, pass.results[s].jira_tickets[k].ticket_key) :
            LinkRows(pass.before.links, s, j) # {}}

\* C13: when a pass without force-update finds again a reference whose link
\* is stored, the link is left as it was, no error entry is recorded for the
\* annotation, and an issue with nothing but such references is not a failure.
C13_RediscoveryIsNoOp ==
    (pass.cmd \in {"scan", "link"} /\ ~pass.force_update) =>
        \A s \in pass.processed :
            /\ \A k \in Rediscovered(s) :
                  LET key == pass.results[s].jira_tickets[k].ticket_key IN
                  /\ \A j \in RowsWithKey(pass.before.issues, key) :
                        \A i \in LinkRows(pass.before.links, s, j) :
                            i \in DOMAIN links /\ links[i] = pass.before.links[i]
                  /\ \A e \in DOMAIN pass.results[s].errors :
                        pass.results[s].errors[e].key # key
            /\ (Rediscovered(s) # {}
                /\ Rediscovered(s) = DOMAIN pass.results[s].jira_tickets)
                  => pass.results[s].success

\* The tickets of the processed issue s that had no row before the pass and
\* that the Jira account asked for them holds and returns.
Repairable(s) ==
    {k \in DOMAIN pass.results[s].jira_tickets :
        LET info == pass.results[s].jira_tickets[k]
            o == FetchOrg(pass.before.projects, info)
        IN /\ RowsWithKey(pass.before.issues, info.ticket_key) = {}
           /\ o # 0
           /\ remote[o].mode = "ok"
           /\ info.ticket_key \in RemoteTickets(o)}

\* C14: a reference to a ticket without a local row, served by a healthy
\* account, ends the pass with the project row, the issue row and the link
\* stored; and no link ever references a row that is not stored.
C14_AutoRepair ==
    /\ \A i \in DOMAIN links :
          /\ links[i].jira_issue \in DOMAIN issues
          /\ issues[links[i].jira_issue].project \in DOMAIN projects
    /\ pass.cmd \in {"scan", "link"} =>
          \A s \in pass.processed : \A k \in Repairable(s) :
              LET info == pass.results[s].jira_tickets[k]
                  o == FetchOrg(pass.before.projects, info)
              IN \E j \in RowsWithKey(issues, info.ticket_key) :
                    /\ issues[j].project \in DOMAIN projects
                    /\ projects[issues[j].project].org = o
                    /\ projects[issues[j].project].key = ProjectKeyOf(info.ticket_key)
                    /\ LinkRows(links, s, j) # {}

\* A pass created the project row, the issue row and the link of a reference.
C14_Witness ==
    /\ pass.cmd \in {"scan", "link"}
    /\ \E s \in pass.processed : Repairable(s) # {}
    /\ Len(projects) > Len(pass.before.projects)
    /\ Len(issues) > Len(pass.before.issues)
    /\ Len(links) > Len(pass.before.links)

\* The tickets of each single annotation, computed once.
TicketsOf == [a \in {CloudRef, BareRef, BadRef} |-> ExtractJiraTickets(<<a>>, 1)] @@ <<>>

\* The annotations of the issue s that did not lead to a link: those that do
\* not parse and those whose ticket has no link to s after the pass.
FailedAnnotations(s) ==
    {k \in DOMAIN annotations[s].list :
        LET a == annotations[s].list[k]
            info == TicketsOf[a]
        IN \/ info = <<>>
           \/ \A j \in RowsWithKey(issues, info[1].ticket_key) : LinkRows(links, s, j) = {}}

\* The entries of the errors list of s that report a failure.
FailureEntries(s) ==
    {e \in DOMAIN pass.results[s].errors :
        pass.results[s].errors[e].msg \in {"no_tickets", "not_fetched", "error_linking"}}

\* C15: every annotation that could not be parsed, resolved, fetched or
\* linked has its error string in the results of its issue, the other
\* annotations of the issue are processed (linked or reported), and a scan
\* processes every other issue of the batch.
C15_AnnotationErrorsIsolated ==
    pass.cmd \in {"scan", "link"} =>
        /\ \A s \in pass.processed :
              /\ ~annotations[s].ok => pass.results[s].errors # <<>>
              /\ annotations[s].ok =>
                    Cardinality(FailureEntries(s)) >= Cardinality(FailedAnnotations(s))
        /\ (pass.cmd = "scan" /\ ~pass.skip_linked) => pass.processed = SentryIssueIds

(* ------------------------------ pagination ------------------------------ *)
\* The list fetches that page through a server's answers. pg is the fetch in
\* progress: the page about to be requested, the items collected (SonarCloud)
\* or synced (Jira) so far and the requests made.

\* Bounds: the requests a fetch is followed for, the items of one page.
MaxRequests == 102
PageItems == 1

\* The safety limits of get_project_issues and get_security_hotspots.
IssuePageLimit == 100
HotspotPageLimit == 50

SonarLoops == {"sonar_projects", "sonar_issues", "sonar_hotspots"}
Loops == SonarLoops \cup {"jira_issues"}

\* The totals a server can report: none, the items sent so far, or more
\* than any fetch followed here can collect.
HugeTotal == (MaxRequests + 1) * (PageItems + max_results)
Totals(sent) == {0, sent, HugeTotal}

\* A fetch begins: page = 1 (start_at = 0), nothing collected.
StartFetch(loop) ==
    /\ pg.loop = "none"
    /\ pg' = [loop |-> loop, page |-> 1, collected |-> 0, synced |-> 0,
              requests |-> 0, done |-> FALSE, ok |-> TRUE]
    /\ UNCHANGED <<syncvars, corrvars>>

\* The page limit of the loop; 0: the loop has none.
PageLimit(loop) ==
    IF loop = "sonar_issues" THEN IssuePageLimit
    ELSE IF loop = "sonar_hotspots" THEN HotspotPageLimit
    ELSE 0

\* One pass through the while-loop of SonarCloudAPIClient.get_projects,
\* get_project_issues or get_security_hotspots: the request, its answer
\* (success, the items of the page, the total) and the exit checks.
SonarPage(success, items, total) ==
    /\ pg.loop \in SonarLoops /\ ~pg.done
    /\ pg.requests < MaxRequests
    /\ LET collected == pg.collected + items IN
       pg' = IF ~success
             THEN [pg EXCEPT !.requests = @ + 1, !.done = TRUE, !.ok = FALSE,
                             !.collected = 0]
             ELSE IF collected >= total
             THEN [pg EXCEPT !.requests = @ + 1, !.collected = collected, !.done = TRUE]
             ELSE [pg EXCEPT !.requests = @ + 1, !.collected = collected,
                             !.page = @ + 1,
                             !.done = PageLimit(pg.loop) # 0
                                      /\ pg.page + 1 > PageLimit(pg.loop)]
    /\ UNCHANGED <<syncvars, corrvars>>

\* One pass through the while-loop of JiraSyncService._sync_project_issues:
\* the request at start_at = (page - 1) * max_results, its answer (success,
\* the issues of the page, how many of them _sync_single_issue stores, the
\* total) and the exit checks.
JiraIssuesPage(success, items, stored, total) ==
    /\ pg.loop = "jira_issues" /\ ~pg.done
    /\ pg.requests < MaxRequests
    /\ stored <= items
    /\ LET start_at == (pg.page - 1) * max_results
           synced_count == pg.synced + stored
       IN pg' = IF ~success THEN [pg EXCEPT !.requests = @ + 1, !.done = TRUE]
                ELSE IF items = 0 THEN [pg EXCEPT !.requests = @ + 1, !.done = TRUE]
                ELSE IF start_at + max_results >= total
                        \/ synced_count >= max_issues_to_sync
                THEN [pg EXCEPT !.requests = @ + 1, !.synced = synced_count,
                                !.collected = @ + items, !.done = TRUE]
                ELSE [pg EXCEPT !.requests = @ + 1, !.synced = synced_count,
                                !.collected = @ + items, !.page = @ + 1]
    /\ UNCHANGED <<syncvars, corrvars>>

\* The fetch returns.
FinishFetch ==
    /\ pg.loop # "none" /\ pg.done
    /\ pg' = IdlePager
    /\ UNCHANGED <<syncvars, corrvars>>

PageInit ==
    /\ kind = "sonar" /\ now = 0
    /\ org = [o \in OrgIds |-> NewOrg(TRUE, NULL)]
    /\ remote = [o \in OrgIds |-> CleanRemote("ok")]
    /\ projects = <<>> /\ issues = <<>> /\ logs = <<>>
    /\ run = IdleRun /\ call = IdleCall
    /\ last = [org |-> 0, np |-> 0, ni |-> 0]
    /\ NoCorrelation
    /\ NoPagination

PageNext ==
    \/ \E loop \in Loops : StartFetch(loop)
    \/ \E success \in BOOLEAN, items \in 0..PageItems :
          \E total \in Totals(pg.collected + items) : SonarPage(success, items, total)
    \/ \E success \in BOOLEAN, items \in 0..PageItems, stored \in 0..PageItems :
          \E total \in Totals(pg.collected + items) : JiraIssuesPage(success, items, stored, total)
    \/ FinishFetch

PageSpec == PageInit /\ [][PageNext]_vars

\* C19: every list fetch stops within the page limit whatever totals the
\* server reports: no fetch makes more requests than the largest page limit.
C19_PaginationBounded == pg.loop # "none" => pg.requests <= IssuePageLimit

\* C27: when a Sentry, Jira or SonarCloud run has ended with an error, the
\* project and issue tables are what they were when the run began, its sync
\* log is stored failed and completed with the error, and a Jira or
\* SonarCloud organization is stored with the failed connection status.
C27_FailedRunRolledBack ==
    (kind # "azure" /\ run.pc = "returned" /\ run.err # "") =>
        /\ projects = run.snap_projects
        /\ issues = run.snap_issues
        /\ logs[run.log].status = "failed"
        /\ logs[run.log].error_message = run.err
        /\ logs[run.log].completed_at # NULL
        /\ kind \in {"jira", "sonar"} =>
              /\ org[run.org].connection_status = "failed"
              /\ org[run.org].connection_error = run.err

\* A Jira run on empty tables whose account lists a first project as
\* expected and a second element that is not a dict has ended: the first
\* project was upserted before the exception.
C27_Witness ==
    /\ kind = "jira" /\ run.pc = "returned" /\ run.err = "exception"
    /\ remote[run.org].mode = "ok" /\ remote[run.org].badProject = 2
    /\ remote[run.org].badShape = "nondict"
    /\ run.snap_projects = <<>> /\ projects = <<>>
    /\ Outcome(logs[run.log]) = "failed"
    /\ org[run.org].connection_status = "failed"

\* The same run at its except block, the first project in the table.
C27_UpsertedBeforeRaise ==
    /\ kind = "jira" /\ run.pc = "except" /\ run.err = "exception"
    /\ remote[run.org].badProject = 2 /\ remote[run.org].badShape = "nondict"
    /\ run.snap_projects = <<>> /\ Len(projects) = 1

(* ----------------------- one project's issue sync ---------------------- *)
\* JiraSyncService._sync_project_issues and SentrySyncService._sync_project_data
\* followed request by request for one project, with the project's
\* max_issues_to_sync, the number of issues the remote project lists and the
\* number of issues the server puts on one page as parameters.  pg is the
\* sync in progress: start_at, synced_count, the keys upserted by it.

\* Values of JiraProject.max_issues_to_sync (a PositiveIntegerField).
IssueLimits == {0, 1, max_results, max_results + 1, max_issues_to_sync}

\* Issues the search endpoint returns per page: the requested maxResults, or
\* fewer when the server caps the page size.
ServerPageSizes == {1, max_results}

\* Issue rows the project holds from an earlier sync: none, an issue whose
\* status changed remotely since, an issue the remote project lists no more.
StoredIssues ==
    {<<>>,
     <<[project |-> 1, key |-> 1, cat |-> "done"]>>,
     <<[project |-> 1, key |-> MaxIssues + 1, cat |-> "indeterminate"]>>}

IssueSyncInit ==
    /\ kind \in {"jira", "sentry"} /\ now = 0
    /\ org = [o \in OrgIds |-> NewOrg(TRUE, NULL)]
    /\ remote = [o \in OrgIds |-> CleanRemote("ok")]
    /\ issues \in StoredIssues
    /\ projects = UpdateProjectStatistics(
                      <<[org |-> 1, key |-> 1, total |-> 0, open |-> 0,
                         in_progress |-> 0, done |-> 0]>>, issues, 1)
    /\ logs = <<>>
    /\ run = IdleRun /\ call = IdleCall
    /\ last = [org |-> 0, np |-> 0, ni |-> 0]
    /\ NoCorrelation
    /\ NoPagination

\* The issues the remote project p lists when it has total of them.
ListedIssues(p, total) ==
    SubSeq(RemoteIssues(remote[projects[p].org], projects[p].key), 1, total)

\* The search endpoint's answer for startAt = start_at and maxResults =
\* max_results: the listed issues from there on, at most served of them.
SearchPage(all, start_at, served) ==
    SubSeq(all, start_at + 1, Min(start_at + Min(max_results, served), Len(all)))

\* _sync_project_issues(project) / _sync_project_data(project) is entered.
StartProjectSync(p, limit, total, served) ==
    /\ pg.loop = "none"
    /\ pg' = [loop |-> "project_issues", project |-> p, limit |-> limit,
              total |-> total, served |-> served, start_at |-> 0, synced |-> 0,
              keys |-> {}, requests |-> 0, done |-> FALSE, ok |-> TRUE]
    /\ UNCHANGED <<syncvars, corrvars>>

\* What one search request comes back with: a page (HTTP 200 with a JSON
\* object), a failure (success False), or HTTP 200 with a JSON body that is
\* not an object, on which issues_data.get raises.
Answers == {"ok", "failed", "nondict"}

\* One pass through the while-loop of _sync_project_issues: the request, the
\* upsert of every issue of the page, the exit checks, and on leaving the
\* loop by break _update_project_statistics and project.save().  An exception
\* raised in the loop is caught by the method's except clause, which logs it
\* and returns: the statistics lines are not reached.
SyncProjectIssuesPage(answer) ==
    /\ kind = "jira" /\ pg.loop = "project_issues" /\ ~pg.done
    /\ \E page \in {IF answer = "ok"
                    THEN SearchPage(ListedIssues(pg.project, pg.total), pg.start_at, pg.served)
                    ELSE <<>>} :
       \E res \in {SyncIssueItems(page, 1, pg.project,
                                  [table |-> issues, count |-> 0, raised |-> FALSE])} :
       \E leave \in {\/ answer # "ok"
                     \/ page = <<>>
                     \/ pg.start_at + max_results >= pg.total
                     \/ pg.synced + res.count >= pg.limit} :
          /\ issues' = res.table
          /\ projects' = IF leave /\ answer # "nondict"
                         THEN UpdateProjectStatistics(projects, res.table, pg.project)
                         ELSE projects
          /\ pg' = [pg EXCEPT !.requests = @ + 1,
                              !.ok = @ /\ answer = "ok",
                              !.synced = @ + res.count,
                              !.keys = @ \cup {page[k].key : k \in DOMAIN page},
                              !.start_at = IF leave THEN @ ELSE @ + max_results,
                              !.done = leave]
    /\ UNCHANGED <<kind, now, org, remote, logs, run, call, last>>
    /\ UNCHANGED corrvars

\* _sync_project_data: one get_issues request, the upsert of every issue it
\* returned, then the statistics block and project.save().
SyncProjectData(success) ==
    /\ kind = "sentry" /\ pg.loop = "project_issues" /\ ~pg.done
    /\ \E res \in {IF success
                   THEN SyncIssueItems(ListedIssues(pg.project, pg.total), 1, pg.project,
                                       [table |-> issues, count |-> 0, raised |-> FALSE])
                   ELSE [table |-> issues, count |-> 0, raised |-> FALSE]} :
          /\ issues' = res.table
          /\ projects' = UpdateProjectStatistics(projects, res.table, pg.project)
          /\ pg' = [pg EXCEPT !.requests = @ + 1,
                              !.ok = success,
                              !.synced = res.count,
                              !.keys = IF success
                                       THEN {ListedIssues(pg.project, pg.total)[k].key :
                                                k \in 1..pg.total}
                                       ELSE {},
                              !.done = TRUE]
    /\ UNCHANGED <<kind, now, org, remote, logs, run, call, last>>
    /\ UNCHANGED corrvars

\* The method returns synced_count.
FinishProjectSync ==
    /\ pg.loop = "project_issues" /\ pg.done
    /\ pg' = IdlePager
    /\ UNCHANGED <<syncvars, corrvars>>

IssueSyncNext ==
    \/ \E p \in DOMAIN projects, limit \in IssueLimits, total \in 0..MaxIssues,
          served \in ServerPageSizes : StartProjectSync(p, limit, total, served)
    \/ \E answer \in Answers : SyncProjectIssuesPage(answer)
    \/ \E success \in BOOLEAN : SyncProjectData(success)
    \/ FinishProjectSync

IssueSyncSpec == IssueSyncInit /\ [][IssueSyncNext]_vars

\* C23: whenever no issue sync of a project is between two requests, every
\* project's total equals the number of its Issue rows and its open,
\* in_progress (Jira) and done counters equal the numbers of its rows in the
\* categories new, indeterminate and done.
C23_CountersMatchRows ==
    (pg.loop = "none" \/ pg.done) =>
        \A p \in DOMAIN projects :
            /\ projects[p].total = CountIssues(issues, p, {"new", "indeterminate", "done"})
            /\ projects[p].open = CountIssues(issues, p, {"new"})
            /\ kind = "jira" => projects[p].in_progress = CountIssues(issues, p, {"indeterminate"})
            /\ projects[p].done = CountIssues(issues, p, {"done"})

\* A Jira issue sync ended after a page was upserted and the project's total
\* is not the number of its rows.
C23_StaleAfterException ==
    /\ kind = "jira" /\ pg.loop = "project_issues" /\ pg.done /\ ~pg.ok
    /\ pg.synced > 0
    /\ projects[pg.project].total < CountIssues(issues, pg.project, {"new", "indeterminate", "done"})

\* C25: a Jira project's issue sync has upserted at most max_issues_to_sync
\* issues.
C25_SyncLimitRespected ==
    (kind = "jira" /\ pg.loop = "project_issues") => Cardinality(pg.keys) <= pg.limit

\* C29: a Jira issue sync that ended with every request answered, for a
\* project listing no more issues than max_issues_to_sync, has upserted every
\* listed issue.
C29_EveryIssueSynced ==
    (/\ kind = "jira" /\ pg.loop = "project_issues" /\ pg.done /\ pg.ok
     /\ pg.total <= pg.limit)
       => \A i \in 1..pg.total : ListedIssues(pg.project, pg.total)[i].key \in pg.keys

\* The first page of a project limited to one issue upserted two.
C25_FirstPageOverrun ==
    /\ kind = "jira" /\ pg.loop = "project_issues"
    /\ pg.limit = 1 /\ pg.requests = 1 /\ Cardinality(pg.keys) = max_results

\* Every request was answered, the server put one issue on each page, and the
\* sync ended without the second listed issue.
C29_ShortPagesMiss ==
    /\ kind = "jira" /\ pg.loop = "project_issues" /\ pg.done /\ pg.ok
    /\ pg.total <= pg.limit /\ pg.served < max_results /\ pg.total >= 2
    /\ ListedIssues(pg.project, pg.total)[2].key \notin pg.keys

\* The same with full pages: not reachable.
C29_FullPagesMiss ==
    /\ kind = "jira" /\ pg.loop = "project_issues" /\ pg.done /\ pg.ok
    /\ pg.total <= pg.limit /\ pg.served >= max_results
    /\ \E i \in 1..pg.total : ListedIssues(pg.project, pg.total)[i].key \notin pg.keys

(* -------------------- a sync log over its lifetime --------------------- *)
\* One sync log row from its creation through its completion to later saves
\* of the stored row.  The sync services write a log when they create it and
\* when they complete it; afterwards a row is saved again only through the
\* admin change form, which the Sentry and Azure admins leave open (the
\* counters are editable, the times and the duration read-only) and the Jira
\* and SonarCloud admins do not.

\* Model.save() of a sync log: AzureSyncLog overrides it, the others do not.
SyncLogSave(l) == IF kind = "azure" THEN AzureSyncLogSave(l) ELSE l

DurationInit ==
    /\ kind \in Kinds /\ now = 0
    /\ org = [o \in OrgIds |-> NewOrg(TRUE, NULL)]
    /\ remote = [o \in OrgIds |-> CleanRemote("ok")]
    /\ projects = <<>> /\ issues = <<>> /\ logs = <<>>
    /\ run = IdleRun /\ call = IdleCall
    /\ last = [org |-> 0, np |-> 0, ni |-> 0]
    /\ NoCorrelation
    /\ NoPagination

\* SyncLog.objects.create(...) at the head of sync_all / sync_configuration;
\* the service keeps the instance.
CreateSyncLog(o) ==
    /\ run.pc = "idle" /\ Len(logs) < MaxLogs
    /\ logs' = Append(logs, NewLog(o))
    /\ run' = [IdleRun EXCEPT !.pc = "try", !.org = o, !.log = Len(logs) + 1,
                              !.mem_log = NewLog(o)]
    /\ UNCHANGED <<kind, now, org, remote, projects, issues, call, last>>
    /\ UNCHANGED <<corrvars, pagevars>>

\* The service completes its instance and saves it: the finally block of the
\* Sentry, Jira and SonarCloud sync_all, the success and except paths of
\* Azure's sync_configuration.
CompleteSyncLog(failed) ==
    /\ run.pc = "try"
    /\ \E l \in {IF kind = "azure"
                 THEN AzureSyncLogSave([run.mem_log EXCEPT !.success = ~failed,
                                                           !.error_entries = IF failed THEN 1 ELSE 0,
                                                           !.completed_at = now,
                                                           !.finalized = @ + 1])
                 ELSE Finalize([run.mem_log EXCEPT !.status = IF failed THEN "failed"
                                                             ELSE "success"], now)} :
          logs' = [logs EXCEPT ![run.log] = l]
    /\ run' = IdleRun
    /\ UNCHANGED <<kind, now, org, remote, projects, issues, call, last>>
    /\ UNCHANGED <<corrvars, pagevars>>

\* The admin change form saves the stored row i with an edited counter.
SaveSyncLogAgain(i, n) ==
    /\ kind \in {"sentry", "azure"}
    /\ i \in DOMAIN logs /\ logs[i].projects_synced # n
    /\ logs' = [logs EXCEPT ![i] = SyncLogSave([@ EXCEPT !.projects_synced = n])]
    /\ UNCHANGED <<kind, now, org, remote, projects, issues, run, call, last>>
    /\ UNCHANGED <<corrvars, pagevars>>

\* Time passes.
ClockTick ==
    /\ now < MaxTime
    /\ now' = now + 1
    /\ UNCHANGED <<kind, org, remote, projects, issues, logs, run, call, last>>
    /\ UNCHANGED <<corrvars, pagevars>>

DurationNext ==
    \/ \E o \in OrgIds : CreateSyncLog(o)
    \/ \E failed \in BOOLEAN : CompleteSyncLog(failed)
    \/ \E i \in 1..MaxLogs, n \in 0..1 : SaveSyncLogAgain(i, n)
    \/ ClockTick

DurationSpec == DurationInit /\ [][DurationNext]_vars

\* C24: a sync log has no duration until it is completed, is completed once,
\* then stores duration = completed_at - started_at, and no later step
\* changes the completed_at or the duration of a completed log.
C24_DurationComputedOnce ==
    /\ [](\A i \in DOMAIN logs :
            /\ logs[i].completed_at = NULL => logs[i].duration = NULL /\ logs[i].finalized = 0
            /\ logs[i].completed_at # NULL
                  => /\ logs[i].finalized = 1
                     /\ logs[i].duration = logs[i].completed_at - logs[i].started_at)
    /\ [][\A i \in DOMAIN logs :
            logs[i].completed_at # NULL
               => /\ i \in DOMAIN logs'
                  /\ logs'[i].completed_at = logs[i].completed_at
                  /\ logs'[i].duration = logs[i].duration]_vars

\* A completed Azure log with a zero duration, saved again at a later time
\* with an edited counter: the save that recalculates.
C24_Witness ==
    /\ kind = "azure"
    /\ \E i \in DOMAIN logs :
          /\ logs[i].completed_at # NULL /\ logs[i].duration = 0
          /\ logs[i].projects_synced > 0
          /\ now > logs[i].completed_at

(* ------------- two overlapping runs of one organization --------------- *)
\* Two sync_all calls for organization 1 (a manual trigger and a scheduled
\* one, each with its own service object and database connection) against the
\* same remote data.  Each run does its writes in its own transaction: a row
\* carries tx = 0 once committed and tx = r while it is an uncommitted insert
\* of run r, which only run r sees.  update_or_create is followed in its two
\* statements, the SELECT and the INSERT or UPDATE.  run is the pair of runs.
Runs == {1, 2}

IdleSync ==
    [pc |-> "idle", log |-> 0, step |-> "get", i |-> 1, found |-> 0, todo |-> <<>>,
     pcount |-> 0, icount |-> 0, conflicts |-> 0, err |-> ""]

\* The rows of a table the transaction of run r reads.
VisibleTo(table, r) == {i \in DOMAIN table : table[i].tx \in {0, r}}

\* QuerySet.get for the lookup result m as run r sees it: the row, or 0 for
\* DoesNotExist.
GetRow(table, r, m) ==
    IF m \cap VisibleTo(table, r) = {} THEN 0
    ELSE CHOOSE i \in m \cap VisibleTo(table, r) : \A j \in m \cap VisibleTo(table, r) : i <= j

\* Mutant: the tables have no unique constraint on the natural key.
InsertUnconstrained(table, r, m) == "insert"

\* The INSERT of a row whose natural key the rows m carry, under the
\* unique_together constraint: rejected when a committed row has the key,
\* held back while another transaction's uncommitted row has it.
InsertOutcome(table, r, m) ==
    IF \E i \in m : table[i].tx = 0 THEN "conflict"
    ELSE IF \E i \in m : table[i].tx # r THEN "wait"
    ELSE "insert"

\* The lists the two runs fetch.
FetchedProjects(o) ==
    IF remote[o].mode = "ok" THEN RemoteProjects(remote[o]) ELSE <<>>
FetchedIssues(o, pkey) ==
    IF remote[o].mode = "ok" THEN RemoteIssues(remote[o], pkey) ELSE <<>>

OverlapInit ==
    /\ kind \in {"sentry", "jira"} /\ now = 0
    /\ org = [o \in OrgIds |-> NewOrg(TRUE, NULL)]
    /\ \E m \in {"ok", "auth"} : remote = [o \in OrgIds |-> CleanRemote(m)]
    /\ \E synced \in BOOLEAN :
          /\ projects = IF synced
                        THEN <<[org |-> 1, key |-> 1, total |-> 1, open |-> 0,
                                in_progress |-> 0, done |-> 1, tx |-> 0]>>
                        ELSE <<>>
          /\ issues = IF synced
                      THEN <<[project |-> 1, key |-> 1, cat |-> "done", tx |-> 0]>>
                      ELSE <<>>
    /\ logs = <<>>
    /\ run = [r \in Runs |-> IdleSync]
    /\ call = IdleCall
    /\ last = [org |-> 0, np |-> 0, ni |-> 0]
    /\ NoCorrelation
    /\ NoPagination

\* SyncLog.objects.create at the head of sync_all.
StartSync(r) ==
    /\ run[r].pc = "idle"
    /\ logs' = Append(logs, NewLog(1))
    /\ run' = [run EXCEPT ![r].pc = "probe", ![r].log = Len(logs) + 1]
    /\ UNCHANGED <<kind, now, org, remote, projects, issues, call, last>>
    /\ UNCHANGED <<corrvars, pagevars>>

\* First step in the transaction: Jira's _test_connection, which raises when
\* the probe fails (the except block then saves the failed organization);
\* Sentry's _sync_organization, which does not raise.
ProbeStep(r) ==
    /\ run[r].pc = "probe"
    /\ IF kind = "jira" /\ ~ProbeSucceeds(remote[1])
       THEN /\ run' = [run EXCEPT ![r].pc = "finally", ![r].err = "probe"]
            /\ org' = [org EXCEPT ![1].connection_status = "failed",
                                  ![1].connection_error = "probe"]
       ELSE /\ run' = [run EXCEPT ![r].pc = "projects"]
            /\ org' = IF kind = "jira"
                      THEN [org EXCEPT ![1].connection_status = "connected",
                                       ![1].connection_error = ""]
                      ELSE org
    /\ UNCHANGED <<kind, now, remote, projects, issues, logs, call, last>>
    /\ UNCHANGED <<corrvars, pagevars>>

\* _sync_projects, the SELECT of update_or_create for the next fetched
\* project; after the last one, the queryset organization.projects.all().
GetProject(r) ==
    /\ run[r].pc = "projects" /\ run[r].step = "get"
    /\ IF run[r].i > Len(FetchedProjects(1))
       THEN run' = [run EXCEPT ![r].pc = "issues", ![r].i = 1,
                               ![r].todo = ProjectsOf([k \in DOMAIN projects |->
                                               IF k \in VisibleTo(projects, r)
                                               THEN projects[k]
                                               ELSE [projects[k] EXCEPT !.org = 0]], 1, 1)]
       ELSE run' = [run EXCEPT ![r].step = "write",
                               ![r].found = GetRow(projects, r,
                                   ProjectLookup(projects, 1, FetchedProjects(1)[run[r].i].key))]
    /\ UNCHANGED <<kind, now, org, remote, projects, issues, logs, call, last>>
    /\ UNCHANGED <<corrvars, pagevars>>

\* The second statement of update_or_create for a row with lookup result m:
\* UPDATE of the row found, or INSERT.  A rejected INSERT raises
\* IntegrityError, after which update_or_create reads again and updates the
\* row, or, when its transaction still does not see the row, re-raises into
\* the per-item except clause, which logs and goes on.
WriteProject(r) ==
    /\ run[r].pc = "projects" /\ run[r].step = "write"
    /\ \E key \in {FetchedProjects(1)[run[r].i].key} :
       \E outcome \in {IF run[r].found # 0 THEN "update"
                       ELSE InsertOutcome(projects, r, ProjectLookup(projects, 1, key))} :
          /\ outcome # "wait"
          /\ projects' = IF outcome = "insert"
                         THEN Append(projects, [org |-> 1, key |-> key, total |-> 0, open |-> 0,
                                                in_progress |-> 0, done |-> 0, tx |-> r])
                         ELSE projects
          /\ \E counted \in IF outcome = "conflict" THEN BOOLEAN ELSE {TRUE} :
                run' = [run EXCEPT ![r].step = "get", ![r].i = @ + 1, ![r].found = 0,
                                   ![r].pcount = IF counted THEN @ + 1 ELSE @,
                                   ![r].conflicts = IF outcome = "conflict" THEN @ + 1 ELSE @]
    /\ UNCHANGED <<kind, now, org, remote, issues, logs, call, last>>
    /\ UNCHANGED <<corrvars, pagevars>>

\* The issue loop of _sync_project_data / _sync_project_issues for the
\* project at the head of the run's queryset: the SELECT for the next fetched
\* issue; after the last one, the statistics and project.save(); after the
\* last project, the end of the try block.
GetIssue(r) ==
    /\ run[r].pc = "issues" /\ run[r].step = "get"
    /\ IF run[r].todo = <<>>
       THEN /\ run' = [run EXCEPT ![r].pc = "commit"]
            /\ projects' = projects
       ELSE \E p \in {Head(run[r].todo)} :
            IF run[r].i > Len(FetchedIssues(1, projects[p].key))
            THEN /\ run' = [run EXCEPT ![r].todo = Tail(@), ![r].i = 1]
                 /\ projects' = UpdateProjectStatistics(projects,
                                    [k \in DOMAIN issues |->
                                        IF k \in VisibleTo(issues, r) THEN issues[k]
                                        ELSE [issues[k] EXCEPT !.project = 0]], p)
            ELSE /\ run' = [run EXCEPT ![r].step = "write",
                                       ![r].found = GetRow(issues, r,
                                           IssueLookup(issues, p,
                                               FetchedIssues(1, projects[p].key)[run[r].i].key))]
                 /\ projects' = projects
    /\ UNCHANGED <<kind, now, org, remote, issues, logs, call, last>>
    /\ UNCHANGED <<corrvars, pagevars>>

WriteIssue(r) ==
    /\ run[r].pc = "issues" /\ run[r].step = "write"
    /\ \E p \in {Head(run[r].todo)} :
       \E item \in {FetchedIssues(1, projects[p].key)[run[r].i]} :
       \E outcome \in {IF run[r].found # 0 THEN "update"
                       ELSE InsertOutcome(issues, r, IssueLookup(issues, p, item.key))} :
          /\ outcome # "wait"
          /\ issues' = IF outcome = "insert"
                       THEN Append(issues, [project |-> p, key |-> item.key,
                                            cat |-> item.cat, tx |-> r])
                       ELSE IF outcome = "update"
                       THEN [issues EXCEPT ![run[r].found].cat = item.cat]
                       ELSE issues
          /\ \E counted \in IF outcome = "conflict" THEN BOOLEAN ELSE {TRUE} :
                run' = [run EXCEPT ![r].step = "get", ![r].i = @ + 1, ![r].found = 0,
                                   ![r].icount = IF counted THEN @ + 1 ELSE @,
                                   ![r].conflicts = IF outcome = "conflict" THEN @ + 1 ELSE @]
    /\ UNCHANGED <<kind, now, org, remote, projects, logs, call, last>>
    /\ UNCHANGED <<corrvars, pagevars>>

\* End of the try block and of transaction.atomic(): last_sync is saved and
\* the transaction commits, which makes the run's inserts visible to all.
CommitStep(r) ==
    /\ run[r].pc = "commit"
    /\ org' = [org EXCEPT ![1].last_sync = now]
    /\ projects' = [k \in DOMAIN projects |->
                       IF projects[k].tx = r THEN [projects[k] EXCEPT !.tx = 0]
                       ELSE projects[k]]
    /\ issues' = [k \in DOMAIN issues |->
                     IF issues[k].tx = r THEN [issues[k] EXCEPT !.tx = 0] ELSE issues[k]]
    /\ run' = [run EXCEPT ![r].pc = "finally"]
    /\ UNCHANGED <<kind, now, remote, logs, call, last>>
    /\ UNCHANGED <<corrvars, pagevars>>

\* The finally block: the run's sync log is completed and saved.
FinallyStep(r) ==
    /\ run[r].pc = "finally"
    /\ logs' = [logs EXCEPT ![run[r].log] =
                   Finalize([@ EXCEPT !.status = IF run[r].err = "" THEN "success" ELSE "failed",
                                      !.error_message = run[r].err,
                                      !.projects_synced = run[r].pcount,
                                      !.issues_synced = run[r].icount], now)]
    /\ run' = [run EXCEPT ![r].pc = "returned"]
    /\ UNCHANGED <<kind, now, org, remote, projects, issues, call, last>>
    /\ UNCHANGED <<corrvars, pagevars>>

SyncStep(r) ==
    \/ ProbeStep(r)
    \/ GetProject(r)
    \/ WriteProject(r)
    \/ GetIssue(r)
    \/ WriteIssue(r)
    \/ CommitStep(r)
    \/ FinallyStep(r)

OverlapNext ==
    \/ \E r \in Runs : StartSync(r)
    \/ \E r \in Runs : SyncStep(r)

\* Each run is a thread of its own and keeps running while it can.
OverlapSpec ==
    OverlapInit /\ [][OverlapNext]_vars /\ \A r \in Runs : WF_vars(SyncStep(r))

\* C28: at every point of two overlapping runs no two project rows share
\* (organization, key) and no two issue rows share (project, key), a run that
\* returned left its sync log success or failed with completed_at set, and
\* every run that started returns.
C28_OverlapKeepsKeysUnique ==
    /\ [](/\ \A i, j \in DOMAIN projects :
                (projects[i].org = projects[j].org /\ projects[i].key = projects[j].key)
                   => i = j
          /\ \A i, j \in DOMAIN issues :
                (issues[i].project = issues[j].project /\ issues[i].key = issues[j].key)
                   => i = j
          /\ \A r \in Runs :
                run[r].pc = "returned"
                   => /\ logs[run[r].log].status \in {"success", "failed"}
                      /\ logs[run[r].log].completed_at # NULL)
    /\ \A r \in Runs : (run[r].pc # "idle") ~> (run[r].pc = "returned")

\* Both runs returned with their own completed logs, one of them after an
\* INSERT of a key the other had inserted, and every fetched row is stored.
C28_Witness ==
    /\ \A r \in Runs : run[r].pc = "returned" /\ logs[run[r].log].status = "success"
    /\ run[1].log # run[2].log
    /\ \E r \in Runs : run[r].conflicts > 0
    /\ Len(projects) = MaxProjects /\ Len(issues) = MaxProjects * MaxIssues

(* ---------------------- dashboard snapshot cache ----------------------- *)
\* CachedDashboardService: a snapshot is stored under (dashboard_type,
\* filter_key) when a dashboard is first asked for with a pair of filter
\* parameters, and regenerated by the cache refresh with the parameters read
\* back from its filter key.  A parameter is None or a text; pg.snapshots is
\* the DashboardSnapshot table, each row with the parameters it was first
\* generated with (built) and those of its latest generation (params).
MaxSnapshots == 2

None == [none |-> TRUE, text |-> <<>>]
Text(s) == [none |-> FALSE, text |-> s]

Executive == <<"e", "x", "e", "c", "u", "t", "i", "v", "e">>
Product == <<"p", "r", "o", "d", "u", "c", "t">>
Environment == <<"e", "n", "v", "i", "r", "o", "n", "m", "e", "n", "t">>
DashboardTypes == {Executive, Product, Environment}

\* Filter parameters: none, a product id, an environment name, a name with
\* an underscore.
FilterParams ==
    {None, Text(<<"7">>), Text(<<"p", "r", "o", "d">>), Text(<<"e", "u", "_", "1">>)}

\* "_".join(parts)
RECURSIVE JoinUnderscore(_)
JoinUnderscore(parts) ==
    IF parts = <<>> THEN <<>>
    ELSE IF Len(parts) = 1 THEN parts[1]
    ELSE parts[1] \o <<"_">> \o JoinUnderscore(Tail(parts))

\* _build_filter_key(dashboard_type, param1, param2)
BuildFilterKey(dashboard_type, param1, param2) ==
    JoinUnderscore(<<dashboard_type>>
                   \o (IF param1.none THEN <<>> ELSE <<<<"p", "1", "_">> \o param1.text>>)
                   \o (IF param2.none THEN <<>> ELSE <<<<"p", "2", "_">> \o param2.text>>))

\* filter_key.split('_')
RECURSIVE SplitUnderscore(_)
SplitUnderscore(s) ==
    IF \A k \in DOMAIN s : s[k] # "_" THEN <<s>>
    ELSE <<SubSeq(s, 1, RunEndNot(s, 1, {"_"}))>>
         \o SplitUnderscore(SubSeq(s, RunEndNot(s, 1, {"_"}) + 2, Len(s)))

\* part.startswith(prefix)
StartsWith(part, prefix) ==
    Len(part) >= Len(prefix) /\ SubSeq(part, 1, Len(prefix)) = prefix

NoneText == <<"N", "o", "n", "e">>

\* value if value != 'None' else None
ParamValue(value) == IF value = NoneText THEN None ELSE Text(value)

\* _extract_param(filter_parts, param_prefix): the rest of the first part
\* that starts with the prefix and an underscore, None when there is no such
\* part.
RECURSIVE ExtractParam(_, _)
ExtractParam(filter_parts, param_prefix) ==
    IF filter_parts = <<>> THEN None
    ELSE IF StartsWith(Head(filter_parts), param_prefix \o <<"_">>)
    THEN ParamValue(SubSeq(Head(filter_parts), Len(param_prefix) + 2,
                           Len(Head(filter_parts))))
    ELSE ExtractParam(Tail(filter_parts), param_prefix)

\* The parameters _refresh_dashboard_type passes to the generator of a
\* snapshot: for each dashboard type, p1 is the first argument and p2 the
\* second.
RecoveredParams(filter_key) ==
    <<ExtractParam(SplitUnderscore(filter_key), <<"p", "1">>),
      ExtractParam(SplitUnderscore(filter_key), <<"p", "2">>)>>

SnapshotRows(dashboard_type, filter_key) ==
    {k \in DOMAIN pg.snapshots :
        /\ pg.snapshots[k].dashboard_type = dashboard_type
        /\ pg.snapshots[k].filter_key = filter_key}

CacheInit ==
    /\ kind = "sentry" /\ now = 0
    /\ org = [o \in OrgIds |-> NewOrg(TRUE, NULL)]
    /\ remote = [o \in OrgIds |-> CleanRemote("ok")]
    /\ projects = <<>> /\ issues = <<>> /\ logs = <<>>
    /\ run = IdleRun /\ call = IdleCall
    /\ last = [org |-> 0, np |-> 0, ni |-> 0]
    /\ NoCorrelation
    /\ pg = [loop |-> "dashboards", snapshots |-> <<>>]

\* get_executive_dashboard / get_product_health_dashboard /
\* get_environment_dashboard for a combination that has no snapshot yet:
\* get_or_generate stores one under the built key.
GetDashboard(dashboard_type, param1, param2) ==
    /\ pg.loop = "dashboards" /\ Len(pg.snapshots) < MaxSnapshots
    /\ \E filter_key \in {BuildFilterKey(dashboard_type, param1, param2)} :
          /\ SnapshotRows(dashboard_type, filter_key) = {}
          /\ pg' = [pg EXCEPT !.snapshots =
                       Append(@, [dashboard_type |-> dashboard_type,
                                  filter_key |-> filter_key,
                                  built |-> <<param1, param2>>,
                                  params |-> <<param1, param2>>,
                                  refreshed |-> FALSE])]
    /\ UNCHANGED <<syncvars, corrvars>>

\* _refresh_dashboard_type(dashboard_type, force=True): every snapshot of
\* the type is regenerated with the parameters read from its filter key.
RefreshDashboardType(dashboard_type) ==
    /\ pg.loop = "dashboards"
    /\ \E k \in DOMAIN pg.snapshots :
          pg.snapshots[k].dashboard_type = dashboard_type /\ ~pg.snapshots[k].refreshed
    /\ pg' = [pg EXCEPT !.snapshots =
                 [k \in DOMAIN pg.snapshots |->
                     IF pg.snapshots[k].dashboard_type = dashboard_type
                     THEN [pg.snapshots[k] EXCEPT
                              !.params = RecoveredParams(pg.snapshots[k].filter_key),
                              !.refreshed = TRUE]
                     ELSE pg.snapshots[k]]]
    /\ UNCHANGED <<syncvars, corrvars>>

CacheNext ==
    \/ \E dashboard_type \in DashboardTypes, param1 \in FilterParams, param2 \in FilterParams :
          GetDashboard(dashboard_type, param1, param2)
    \/ \E dashboard_type \in DashboardTypes : RefreshDashboardType(dashboard_type)

CacheSpec == CacheInit /\ [][CacheNext]_vars

\* C30: every snapshot's latest generation used the parameters its filter
\* key was built from.
C30_RefreshKeepsFilters ==
    pg.loop = "dashboards" =>
        \A k \in DOMAIN pg.snapshots : pg.snapshots[k].params = pg.snapshots[k].built

\* A refreshed snapshot that was built with two parameters.
C30_RefreshedFiltered ==
    /\ pg.loop = "dashboards"
    /\ \E k \in DOMAIN pg.snapshots :
          /\ pg.snapshots[k].refreshed
          /\ ~pg.snapshots[k].built[1].none /\ ~pg.snapshots[k].built[2].none

\* Only snapshots built without parameters keep them through a refresh.
C30_RefreshDropsFilters ==
    pg.loop = "dashboards" =>
        \A k \in DOMAIN pg.snapshots :
            pg.snapshots[k].refreshed => pg.snapshots[k].params = <<None, None>>

====
